---- MODULE Spec2Model ----
(***************************************************************************)
(* Podcastify: the conversion job supervisor (src/backend/app.py), its     *)
(* worker thread process_conversion, the HTTP handlers that write the job  *)
(* registry active_jobs, and the per-backend sliding-window rate limiter   *)
(* (src/backend/tts_services.py).                                          *)
(*                                                                         *)
(* app.py lines 272-397 are indented one level less than the try block     *)
(* that encloses them (lines 249-270 and 399-403), so the file as it       *)
(* stands does not compile.  The model reads them as the body of that try  *)
(* block, which is the only reading under which lines 399-436 make sense.  *)
(*                                                                         *)
(* Progress values are held in thousandths: 0.1 is 100, 1.0 is 1000 and    *)
(* the integer 100 that line 393 stores is 100000.                         *)
(***************************************************************************)
EXTENDS Integers, Sequences, FiniteSets, Bags, TLC

VARIABLES
    active_jobs,    \* app.py:41   job id -> job record (the job registry)
    workers,        \* one record per thread started by start_conversion
    emitted,        \* conversion_complete / conversion_error events sent
    requests_per_minute,  \* tts_services.py:63, 149  a backend's cap
    request_times,  \* tts_services.py:64, 150  its recorded request times
    clock,          \* time.time(), in seconds
    callers,        \* the threads that call synthesize_speech of the backend
    issued,         \* bag of the backend calls issued: when, and as recorded
    chunker,        \* one call of PDFProcessor.chunk_text_for_tts
    segmenter,      \* one call of PDFProcessor.detect_chapters
    assembler,      \* one call of AudioProcessor.combine_audio_chunks
    classifier,     \* one call of ContentFilter.analyze_page
    preparation,    \* app.py:272-286  the steps from the pages to the sections
    pdf_processor,  \* app.py:36  the PDFProcessor all jobs share
    tts_manager     \* app.py:35  the TTSManager: its registry and its default

jobVars == <<active_jobs, workers, emitted, pdf_processor>>
rlVars == <<requests_per_minute, request_times, clock, callers, issued,
           tts_manager>>
fnVars == <<chunker, segmenter, assembler, classifier, preparation>>
vars == <<active_jobs, workers, emitted, requests_per_minute, request_times,
          clock, callers, issued, chunker, segmenter, assembler, classifier,
          preparation, pdf_processor, tts_manager>>

(***************************************************************************)
(* Bounds of the model.                                                    *)
(***************************************************************************)
MaxThreads == 1         \* worker threads start_conversion may start
MaxChunks == 2          \* text chunks of an uploaded document
MaxCallers == 2         \* threads that use one backend at the same time
MaxCalls == 201         \* backend calls of a thread that has the backend alone
MaxRaceCalls == 2       \* backend calls of each thread that shares the backend
MaxClock == 60          \* last reading of the clock, in seconds
MaxTextLen == 5         \* characters of a text given to the chunker
MaxChunkSize == 3       \* largest max_chunk_size given to the chunker

\* Handlers and workers read and write only the record of their own job id
\* (app.py:148-155, 238-239, 250), so one job id is modelled.
JobIds == {1}
ThreadIds == 1..MaxThreads
\* the threads of a behaviour in which one more convert request is served
ConcurrentThreadIds == 1..(MaxThreads + 1)

None == "None"

(***************************************************************************)
(* Program constants.                                                      *)
(***************************************************************************)
max_retries == 3
max_tts_retries == 3
OpenAIRequestsPerMinute == 50
GoogleRequestsPerMinute == 100
WindowSeconds == 60

Terminal == {"completed", "failed", "cancelled"}

CancelMsg == "Job was cancelled by user"

\* str(e) of an exception raised by fitz in extract_text_from_pdf
ExtractionErrors == {"cannot open document"}
\* str(e) of an exception raised by AudioSegment.export
ExportErrors == {"export failed"}
\* str(e) of an exception raised by AudioSegment.from_file on undecodable bytes
DecodeError == "decoding failed"

\* No call of the chunker or of the segmenter is under way.
IdleChunker ==
    [pc |-> "idle", text |-> <<>>, max_chunk_size |-> 0, chunks |-> <<>>]
IdleSegmenter == [pc |-> "idle", pages |-> <<>>, sections |-> <<>>]

\* No call of the assembler or of the classifier is under way.
IdleAssembler ==
    [pc |-> "idle", chunks |-> <<>>, chapter_pause_duration |-> 0,
     combined_audio |-> <<>>, chapters |-> <<>>, chapter_audio |-> <<>>]
IdleClassifier ==
    [pc |-> "idle", page |-> None, config |-> {}, result |-> None]

\* No conversion is being prepared.
IdlePreparation ==
    [pc |-> "idle", settings |-> {}, pages |-> <<>>, filtered_pages |-> <<>>,
     sections |-> <<>>, filtered_sections |-> <<>>]

\* pdf_processor.py:33-35
NewPDFProcessor == [pages |-> <<>>, sections |-> <<>>]

\* tts_services.py:257-259  TTSManager.__init__; raised is the exception the
\* last call of a method of the manager raised, None when it returned
NewTTSManager ==
    [services |-> [name \in {} |-> None], default_service |-> None,
     raised |-> None]

(***************************************************************************)
(* Documents.  A document is given by the kept sections that extraction,   *)
(* page filtering, chapter detection and section filtering leave of it:    *)
(* doc[s] is the number of text chunks chunk_text_for_tts makes of the     *)
(* s-th kept section (at least one: a kept section has 100 words or more). *)
(* Two documents are uploaded: one of which no section is kept, and one of *)
(* MaxChunks chunks whose sections hold one and two chunks in turn, so     *)
(* that neighbouring chunks of the same and of different chapters occur.   *)
(***************************************************************************)
RECURSIVE SectionSizes(_, _)
SectionSizes(s, left) ==
    IF left = 0 THEN <<>>
    ELSE LET size == IF s % 2 = 1 \/ left = 1 THEN 1 ELSE 2
         IN <<size>> \o SectionSizes(s + 1, left - size)

Documents == {<<>>, SectionSizes(1, MaxChunks)}

SectionTitle(s) == "Chapter " \o ToString(s)
ChunkText(s, k) == "s" \o ToString(s) \o "c" \o ToString(k)

\* app.py:293-302, the inner loop: the chunks of section s, in order
SectionChunks(doc, s) ==
    [k \in 1..doc[s] |-> [text |-> ChunkText(s, k), chapter |-> SectionTitle(s)]]

RECURSIVE AllChunksUpTo(_, _)
AllChunksUpTo(doc, n) ==
    IF n = 0 THEN <<>>
    ELSE AllChunksUpTo(doc, n - 1) \o SectionChunks(doc, n)

\* app.py:291-302: all_chunks, sections in document order
AllChunks(doc) == AllChunksUpTo(doc, Len(doc))

(***************************************************************************)
(* The speech backend.  The service the job asks for is registered, so     *)
(* tts_manager.synthesize_speech returns the service's TTSResponse; a      *)
(* service whose call raised returns audio_data b"" and error str(e)       *)
(* (tts_services.py:87-93 and 186-192), and str(e) may be "".  The message *)
(* of a failure of the n-th call for a chunk names n, so that the failures *)
(* of one chunk can be told apart; the exception without a message is      *)
(* raised only by calls for the first chunk of a document.                 *)
(***************************************************************************)
BackendErrors(text, n) ==
    {"backend failure " \o ToString(n)}
    \cup (IF text = ChunkText(1, 1) THEN {""} ELSE {})

Audio(text) == "mp3:" \o text

\* tts_services.py:81-93: the TTSResponse of the n-th call for a chunk
Responses(text, n) ==
    {[audio_data |-> Audio(text), error |-> None]}
    \cup {[audio_data |-> "", error |-> m] : m \in BackendErrors(text, n)}

\* app.py:337  "if response.error:"  None and "" are both falsy
Truthy(s) == s # None /\ s # ""

\* app.py:337-338: the exception raised for a response, or None
TtsError(r) == IF Truthy(r.error) THEN "TTS error: " \o r.error ELSE None

\* app.py:340-344
AudioChunk(r, chunk) ==
    [audio_data |-> r.audio_data, text |-> chunk.text, chapter |-> chunk.chapter]

\* app.py:350
TtsFailed(tts_error) == "TTS failed after 3 retries: " \o tts_error

\* app.py:353  wait_time = 2 ** tts_retry_count
RECURSIVE Pow2(_)
Pow2(k) == IF k = 0 THEN 1 ELSE 2 * Pow2(k - 1)

\* a wait that grows by one second with each failure
LinearTtsWait(tts_retry_count) == tts_retry_count

\* app.py:353  wait_time = 2 ** tts_retry_count
TtsWait(tts_retry_count) == Pow2(tts_retry_count)

\* a flat wait that ignores the attempt number
FlatRetryWait(retry_count) == 5

\* app.py:424  wait_time = 5 * retry_count
RetryWait(retry_count) == 5 * retry_count

\* app.py:313  progress = 0.5 + (i / len(all_chunks)) * 0.3
SynthProgress(i, n) == 500 + (300 * i) \div n

\* app.py:363 with audio_processor.py:57-58: 0.8 + ((i / total) * 0.8) * 0.15
CombineProgress(i, n) == 800 + (120 * i) \div n

\* no output location
NoOutputPath(j) == None

\* app.py:369-370
OutputPath(j) == "output/" \o ToString(j) \o ".mp3"

(***************************************************************************)
(* The job registry and the HTTP handlers.                                 *)
(***************************************************************************)
Uploaded == DOMAIN active_jobs

IdleWorker ==
    [job |-> 0, pc |-> "unstarted", retry_count |-> 0, i |-> 0,
     tts_retry_count |-> 0, all_chunks |-> <<>>, audio_chunks |-> <<>>,
     tts_error |-> None, k |-> 0, combined_audio |-> <<>>, e |-> None,
     tag_error |-> FALSE, calls |-> 0, slept |-> 0, waited |-> 0]

Returned == [IdleWorker EXCEPT !.pc = "done"]

\* app.py:94-138
upload_file(j, doc) ==
    /\ j \in JobIds \ Uploaded
    /\ \A h \in JobIds : h < j => h \in Uploaded
    /\ active_jobs' = [h \in Uploaded \cup {j} |->
                          IF h = j
                          THEN [status |-> "uploaded", progress |-> 0,
                                message |-> "", error |-> None,
                                output_file |-> None, doc |-> doc]
                          ELSE active_jobs[h]]
    /\ UNCHANGED <<workers, emitted, rlVars, fnVars, pdf_processor>>

\* app.py:140-169: the status is set and a thread started, whatever the status was
start_conversion(j) ==
    /\ j \in Uploaded
    /\ \E t \in DOMAIN workers :
          /\ workers[t].pc = "unstarted"
          /\ \A u \in DOMAIN workers : u < t => workers[u].pc # "unstarted"
          /\ active_jobs' = [active_jobs EXCEPT ![j].status = "processing"]
          /\ workers' = [workers EXCEPT
                ![t] = [IdleWorker EXCEPT !.job = j, !.pc = "loop_top"]]
    /\ UNCHANGED <<emitted, rlVars, fnVars, pdf_processor>>

Running(t) == workers[t].pc \notin {"unstarted", "done"}

\* app.py:235-241: the status is set to cancelled, whatever it was
cancel_job(j) ==
    /\ j \in Uploaded
    /\ active_jobs' = [active_jobs EXCEPT ![j].status = "cancelled"]
    /\ UNCHANGED <<workers, emitted, rlVars, fnVars, pdf_processor>>

(***************************************************************************)
(* process_conversion, app.py:243-436.  A worker's pc names the statement  *)
(* it executes next; one action is one update_progress call (or one write  *)
(* of the job record) together with the thread-local work that follows it  *)
(* up to the next one, or up to the next backend call.  A thread that      *)
(* returns loses its locals: its record becomes Returned.                  *)
(*                                                                         *)
(* Fields of a worker that are not variables of the code: calls (backend   *)
(* calls made for the current chunk in the current pipeline attempt),      *)
(* slept (seconds of the time.sleep the worker has just returned from, 0   *)
(* once it has taken another step), waited (seconds slept so far between  *)
(* the calls for the current chunk), tag_error (_add_detailed_metadata     *)
(* caught an exception in the current attempt).                            *)
(***************************************************************************)
JobOf(t) == workers[t].job

\* app.py:259-266  update_progress: the two writes to the job record
UpdateProgress(t, message, progress) ==
    active_jobs' = [active_jobs EXCEPT ![JobOf(t)].message = message,
                                       ![JobOf(t)].progress = progress]

\* app.py:253 and 269  job.get("status") == "cancelled"
SeesCancelled(t) == active_jobs[JobOf(t)].status = "cancelled"

\* an exception leaves the try block for the handler at app.py:405
Raise(t, msg) == workers' = [workers EXCEPT ![t].pc = "except", ![t].e = msg]

Goto(t, pc) == workers' = [workers EXCEPT ![t].pc = pc]

\* the thread returns (app.py:255, 403, 421)
Return(t) == workers' = [workers EXCEPT ![t] = Returned]

\* app.py:248-255
loop_top(t) ==
    /\ workers[t].pc = "loop_top"
    /\ IF SeesCancelled(t) THEN Return(t)
       ELSE workers' = [workers EXCEPT ![t].pc = "extract", ![t].slept = 0]
    /\ UNCHANGED <<active_jobs, emitted, rlVars, fnVars, pdf_processor>>

\* app.py:272-275
extract(t) ==
    /\ workers[t].pc = "extract"
    /\ UpdateProgress(t, "Extracting text from PDF...", 100)
    /\ IF SeesCancelled(t)
       THEN Raise(t, CancelMsg) /\ UNCHANGED pdf_processor
       ELSE \/ /\ Goto(t, "filter")
               \* pdf_processor.py:71  self.pages = pages
               /\ pdf_processor' = [pdf_processor EXCEPT
                      !.pages = active_jobs[JobOf(t)].doc]
            \/ /\ \E m \in ExtractionErrors : Raise(t, m)
               /\ UNCHANGED pdf_processor
    /\ UNCHANGED <<emitted, rlVars, fnVars>>

\* app.py:277-280
filter(t) ==
    /\ workers[t].pc = "filter"
    /\ UpdateProgress(t, "Filtering content...", 200)
    /\ IF SeesCancelled(t) THEN Raise(t, CancelMsg) ELSE Goto(t, "detect")
    /\ UNCHANGED <<emitted, rlVars, fnVars, pdf_processor>>

\* app.py:282-286
detect(t) ==
    /\ workers[t].pc = "detect"
    /\ UpdateProgress(t, "Detecting chapters...", 300)
    /\ IF SeesCancelled(t)
       THEN Raise(t, CancelMsg) /\ UNCHANGED pdf_processor
       ELSE /\ Goto(t, "prepare")
            \* pdf_processor.py:123  self.sections = sections
            /\ pdf_processor' = [pdf_processor EXCEPT
                   !.sections = active_jobs[JobOf(t)].doc]
    /\ UNCHANGED <<emitted, rlVars, fnVars>>

\* the sections the shared PDFProcessor holds
SharedSections(t) == pdf_processor.sections

\* app.py:285-286, 292: the sections returned to this thread, in its local
\* variables sections and filtered_sections
OwnSections(t) == active_jobs[JobOf(t)].doc

\* app.py:288-302
prepare(t) ==
    /\ workers[t].pc = "prepare"
    /\ UpdateProgress(t, "Preparing text for speech synthesis...", 400)
    /\ IF SeesCancelled(t) THEN Raise(t, CancelMsg)
       ELSE workers' = [workers EXCEPT
               ![t].pc = "convert",
               ![t].all_chunks = AllChunks(OwnSections(t))]
    /\ UNCHANGED <<emitted, rlVars, fnVars, pdf_processor>>

\* the list is created before the retry loop and not emptied by an attempt
StaleAudioChunks(audio_chunks) == audio_chunks

\* app.py:307  audio_chunks = []
FreshAudioChunks(audio_chunks) == <<>>

\* app.py:304-312
convert(t) ==
    /\ workers[t].pc = "convert"
    /\ UpdateProgress(t, "Converting text chunks to speech...", 500)
    /\ IF SeesCancelled(t) THEN Raise(t, CancelMsg)
       ELSE workers' = [workers EXCEPT
               ![t].audio_chunks = FreshAudioChunks(@),
               ![t].i = 0,
               ![t].pc = IF Len(workers[t].all_chunks) = 0
                         THEN "combine" ELSE "synth"]
    /\ UNCHANGED <<emitted, rlVars, fnVars, pdf_processor>>

\* app.py:313-320
synth(t) ==
    /\ workers[t].pc = "synth"
    /\ UpdateProgress(t, "Synthesizing speech",
                      SynthProgress(workers[t].i, Len(workers[t].all_chunks)))
    /\ IF SeesCancelled(t) THEN Raise(t, CancelMsg)
       ELSE workers' = [workers EXCEPT ![t].pc = "tts_call",
                                       ![t].tts_retry_count = 0,
                                       ![t].tts_error = None,
                                       ![t].calls = 0,
                                       ![t].waited = 0]
    /\ UNCHANGED <<emitted, rlVars, fnVars, pdf_processor>>

\* app.py:340-345  audio_chunks.append(AudioChunk(...))
AppendAudio(audio_chunks, r, chunk) == Append(audio_chunks, AudioChunk(r, chunk))

\* > written for >=
TtsExhaustedLate(tts_retry_count) == tts_retry_count > max_tts_retries

\* app.py:349  if tts_retry_count >= max_tts_retries
TtsExhausted(tts_retry_count) == tts_retry_count >= max_tts_retries

\* app.py:320-350: one backend call and what the worker makes of its response
tts_call(t) ==
    /\ workers[t].pc = "tts_call"
    /\ LET w == workers[t]
           chunk == w.all_chunks[w.i + 1]
       IN \E r \in Responses(chunk.text, w.calls + 1) :
            LET tts_error == TtsError(r)
                last == w.i + 1 = Len(w.all_chunks)
            IN workers' = [workers EXCEPT ![t] =
                 IF tts_error = None
                 THEN [w EXCEPT !.calls = @ + 1, !.slept = 0,
                                !.audio_chunks = AppendAudio(@, r, chunk),
                                !.i = @ + 1,
                                !.pc = IF last THEN "combine" ELSE "synth"]
                 ELSE IF TtsExhausted(w.tts_retry_count + 1)
                 THEN [w EXCEPT !.calls = @ + 1, !.slept = 0,
                                !.tts_retry_count = @ + 1,
                                !.tts_error = tts_error,
                                !.e = TtsFailed(tts_error),
                                !.pc = "except"]
                 ELSE [w EXCEPT !.calls = @ + 1, !.slept = 0,
                                !.tts_retry_count = @ + 1,
                                !.tts_error = tts_error,
                                !.pc = "tts_retry"]]
    /\ UNCHANGED <<active_jobs, emitted, rlVars, fnVars, pdf_processor>>

\* app.py:352-355: the checkpoint, then time.sleep(wait_time)
tts_retry(t) ==
    /\ workers[t].pc = "tts_retry"
    /\ UpdateProgress(t, "TTS retry",
                      SynthProgress(workers[t].i, Len(workers[t].all_chunks)))
    /\ IF SeesCancelled(t) THEN Raise(t, CancelMsg)
       ELSE workers' = [workers EXCEPT
               ![t].slept = TtsWait(workers[t].tts_retry_count),
               ![t].waited = @ + TtsWait(workers[t].tts_retry_count),
               ![t].pc = "tts_call"]
    /\ UNCHANGED <<emitted, rlVars, fnVars, pdf_processor>>

\* audio_processor.py:70-73: a pause follows chunk k (1-based) of chunks
PauseAfter(chunks, k) ==
    /\ k < Len(chunks)
    /\ Truthy(chunks[k].chapter)
    /\ Truthy(chunks[k + 1].chapter)
    /\ chunks[k].chapter # chunks[k + 1].chapter

\* audio_processor.py:61-64: AudioSegment.from_file cannot decode empty bytes
Undecodable(audio_data) == audio_data = ""

\* app.py:357-364, audio_processor.py:51-53
combine(t) ==
    /\ workers[t].pc = "combine"
    /\ UpdateProgress(t, "Combining audio chunks...", 800)
    /\ IF SeesCancelled(t) THEN Raise(t, CancelMsg)
       ELSE workers' = [workers EXCEPT
               ![t].k = 0,
               ![t].combined_audio = <<>>,
               ![t].calls = 0,
               ![t].waited = 0,
               ![t].pc = IF Len(workers[t].audio_chunks) = 0
                         THEN "combine_done" ELSE "combine_chunk"]
    /\ UNCHANGED <<emitted, rlVars, fnVars, pdf_processor>>

\* audio_processor.py:55-77: one turn of the loop over the chunks
combine_chunk(t) ==
    /\ workers[t].pc = "combine_chunk"
    /\ LET w == workers[t]
           n == Len(w.audio_chunks)
           chunk == w.audio_chunks[w.k + 1]
           with_chunk == Append(w.combined_audio, chunk.audio_data)
       IN /\ UpdateProgress(t, "Processing chunk", CombineProgress(w.k, n))
          /\ IF SeesCancelled(t) THEN Raise(t, CancelMsg)
             ELSE IF Undecodable(chunk.audio_data) THEN Raise(t, DecodeError)
             ELSE workers' = [workers EXCEPT
                     ![t].combined_audio =
                         IF PauseAfter(w.audio_chunks, w.k + 1)
                         THEN Append(with_chunk, "silence") ELSE with_chunk,
                     ![t].k = @ + 1,
                     ![t].pc = IF w.k + 1 = n THEN "combine_done"
                               ELSE "combine_chunk"]
    /\ UNCHANGED <<emitted, rlVars, fnVars, pdf_processor>>

\* audio_processor.py:79-82 through the callback of app.py:363
combine_done(t) ==
    /\ workers[t].pc = "combine_done"
    /\ UpdateProgress(t, "Audio combination complete", 920)
    /\ IF SeesCancelled(t) THEN Raise(t, CancelMsg) ELSE Goto(t, "export")
    /\ UNCHANGED <<emitted, rlVars, fnVars, pdf_processor>>

\* app.py:366-379
export(t) ==
    /\ workers[t].pc = "export"
    /\ UpdateProgress(t, "Exporting final MP3...", 950)
    /\ IF SeesCancelled(t) THEN Raise(t, CancelMsg) ELSE Goto(t, "export_start")
    /\ UNCHANGED <<emitted, rlVars, fnVars, pdf_processor>>

\* audio_processor.py:93-108 through the callback of app.py:387
export_start(t) ==
    /\ workers[t].pc = "export_start"
    /\ UpdateProgress(t, "Exporting MP3...", 990)
    /\ IF SeesCancelled(t) THEN Raise(t, CancelMsg)
       ELSE \/ Goto(t, "export_meta")
            \/ \E m \in ExportErrors : Raise(t, m)
    /\ UNCHANGED <<emitted, rlVars, fnVars, pdf_processor>>

\* audio_processor.py:110-114 and 126-156: an error while tagging is logged, not raised
export_meta(t) ==
    /\ workers[t].pc = "export_meta"
    /\ UpdateProgress(t, "Adding detailed metadata...", 995)
    /\ IF SeesCancelled(t) THEN Raise(t, CancelMsg)
       ELSE \E failed \in BOOLEAN :
               workers' = [workers EXCEPT ![t].tag_error = failed,
                                          ![t].pc = "export_done"]
    /\ UNCHANGED <<emitted, rlVars, fnVars, pdf_processor>>

\* audio_processor.py:116-120
export_done(t) ==
    /\ workers[t].pc = "export_done"
    /\ UpdateProgress(t, "Export complete", 1000)
    /\ IF SeesCancelled(t) THEN Raise(t, CancelMsg) ELSE Goto(t, "finish")
    /\ UNCHANGED <<emitted, rlVars, fnVars, pdf_processor>>

\* app.py:390-397
finish(t) ==
    /\ workers[t].pc = "finish"
    /\ active_jobs' = [active_jobs EXCEPT
          ![JobOf(t)].status = "completed",
          ![JobOf(t)].progress = 100000,
          ![JobOf(t)].message = "Conversion completed successfully",
          ![JobOf(t)].output_file = OutputPath(JobOf(t))]
    /\ Goto(t, "emit_complete")
    /\ UNCHANGED <<emitted, rlVars, fnVars, pdf_processor>>

\* app.py:399-403
emit_complete(t) ==
    /\ workers[t].pc = "emit_complete"
    /\ emitted' = emitted \cup {[event |-> "conversion_complete",
                                 job_id |-> JobOf(t),
                                 data |-> OutputPath(JobOf(t))]}
    /\ Return(t)
    /\ UNCHANGED <<active_jobs, rlVars, fnVars, pdf_processor>>

\* the budget counted from 0: the job fails after the second attempt
RetriesExhaustedEarly(retry_count) == retry_count >= max_retries - 1

\* app.py:409  if retry_count >= max_retries
RetriesExhausted(retry_count) == retry_count >= max_retries

\* the status is left as it is while the worker runs
StillProcessing == "processing"

\* app.py:412  "status": "failed"
FailedStatus == "failed"

\* app.py:413  "error": str(e)
ErrorField(e) == e

\* app.py:427  "progress": 0
RetryProgress == 0

\* app.py:405-415, or 405-409 and 422-436 (the sleep included).  i,
\* tts_retry_count, tts_error, k and combined_audio are dead until the next
\* attempt assigns them; they are cleared here, and so is e on the retry path
\* (Python unbinds it at the end of the except clause).  audio_chunks and
\* all_chunks are left as the code leaves them.
handle_error(t) ==
    /\ workers[t].pc = "except"
    /\ LET w == workers[t]
           j == JobOf(t)
           n == w.retry_count + 1
           cleared == [w EXCEPT !.retry_count = n, !.i = 0,
                                !.tts_retry_count = 0, !.tts_error = None,
                                !.k = 0, !.combined_audio = <<>>,
                                !.calls = 0, !.waited = 0,
                                !.tag_error = FALSE]
       IN IF RetriesExhausted(n)
          THEN /\ active_jobs' = [active_jobs EXCEPT
                     ![j].status = FailedStatus,
                     ![j].error = ErrorField(w.e),
                     ![j].message = "Conversion failed after 3 attempts: " \o w.e]
               /\ workers' = [workers EXCEPT ![t] = [cleared EXCEPT !.pc = "emit_error"]]
          ELSE /\ active_jobs' = [active_jobs EXCEPT
                     ![j].message = "Retrying conversion",
                     ![j].progress = RetryProgress]
               /\ workers' = [workers EXCEPT ![t] =
                     [cleared EXCEPT !.e = None, !.slept = RetryWait(n),
                                     !.pc = "loop_top"]]
    /\ UNCHANGED <<emitted, rlVars, fnVars, pdf_processor>>

\* app.py:417-421
emit_error(t) ==
    /\ workers[t].pc = "emit_error"
    /\ emitted' = emitted \cup {[event |-> "conversion_error",
                                 job_id |-> JobOf(t),
                                 data |-> workers[t].e]}
    /\ Return(t)
    /\ UNCHANGED <<active_jobs, rlVars, fnVars, pdf_processor>>

process_conversion(t) ==
    \/ loop_top(t) \/ extract(t) \/ filter(t) \/ detect(t) \/ prepare(t)
    \/ convert(t) \/ synth(t) \/ tts_call(t) \/ tts_retry(t)
    \/ combine(t) \/ combine_chunk(t) \/ combine_done(t)
    \/ export(t) \/ export_start(t) \/ export_meta(t) \/ export_done(t)
    \/ finish(t) \/ emit_complete(t)
    \/ handle_error(t) \/ emit_error(t)

Init ==
    /\ active_jobs = [j \in {} |-> None]
    /\ workers = [t \in ThreadIds |-> IdleWorker]
    /\ emitted = {}
    /\ requests_per_minute = OpenAIRequestsPerMinute
    /\ request_times = <<>>
    /\ clock = 0
    /\ callers = <<>>
    /\ issued = EmptyBag
    /\ tts_manager = NewTTSManager
    /\ chunker = IdleChunker
    /\ segmenter = IdleSegmenter
    /\ assembler = IdleAssembler
    /\ classifier = IdleClassifier
    /\ preparation = IdlePreparation
    /\ pdf_processor = NewPDFProcessor

Next ==
    \/ \E j \in JobIds, doc \in Documents : upload_file(j, doc)
    \/ \E j \in JobIds : start_conversion(j)
    \/ \E j \in JobIds : cancel_job(j)
    \/ \E t \in ThreadIds : process_conversion(t)

Spec == Init /\ [][Next]_vars

\* The same program, with a thread for one more convert request.
ConcurrentInit ==
    /\ active_jobs = [j \in {} |-> None]
    /\ workers = [t \in ConcurrentThreadIds |-> IdleWorker]
    /\ emitted = {}
    /\ requests_per_minute = OpenAIRequestsPerMinute
    /\ request_times = <<>>
    /\ clock = 0
    /\ callers = <<>>
    /\ issued = EmptyBag
    /\ tts_manager = NewTTSManager
    /\ chunker = IdleChunker
    /\ segmenter = IdleSegmenter
    /\ assembler = IdleAssembler
    /\ classifier = IdleClassifier
    /\ preparation = IdlePreparation
    /\ pdf_processor = NewPDFProcessor

ConcurrentNext ==
    \/ \E j \in JobIds, doc \in Documents : upload_file(j, doc)
    \/ \E j \in JobIds : start_conversion(j)
    \/ \E j \in JobIds : cancel_job(j)
    \/ \E t \in ConcurrentThreadIds : process_conversion(t)

ConcurrentSpec == ConcurrentInit /\ [][ConcurrentNext]_vars

\* Two jobs on different documents have been uploaded: one of two sections
\* of one chunk each, one of one section of two chunks.  A thread is
\* started for each convert request.
TwoJobIds == {1, 2}
TwoJobDocuments == <<SectionSizes(1, 2), <<2>>>>
TwoJobThreadIds == {1, 2}

TwoJobInit ==
    /\ active_jobs = [j \in TwoJobIds |->
                         [status |-> "uploaded", progress |-> 0,
                          message |-> "", error |-> None,
                          output_file |-> None, doc |-> TwoJobDocuments[j]]]
    /\ workers = [t \in TwoJobThreadIds |-> IdleWorker]
    /\ emitted = {}
    /\ requests_per_minute = OpenAIRequestsPerMinute
    /\ request_times = <<>>
    /\ clock = 0
    /\ callers = <<>>
    /\ issued = EmptyBag
    /\ tts_manager = NewTTSManager
    /\ chunker = IdleChunker
    /\ segmenter = IdleSegmenter
    /\ assembler = IdleAssembler
    /\ classifier = IdleClassifier
    /\ preparation = IdlePreparation
    /\ pdf_processor = NewPDFProcessor

TwoJobNext ==
    \/ \E j \in TwoJobIds : start_conversion(j)
    \/ \E t \in TwoJobThreadIds : process_conversion(t)

TwoJobSpec == TwoJobInit /\ [][TwoJobNext]_vars

\* A started thread is scheduled again and again (threading.Thread,
\* app.py:157-163), and every call it makes returns.
FairSpec == Spec /\ \A t \in ThreadIds : WF_vars(process_conversion(t))

(***************************************************************************)
(* The rate limiter of one backend object (tts_services.py:61-64, 120-133  *)
(* for OpenAI, 147-150, 239-252 for Google; the two bodies are the same).  *)
(* tts_manager is a module-level object (app.py:35), so every worker       *)
(* thread calls the same backend object; each thread runs the coroutine on *)
(* an event loop of its own (app.py:323-332), so the statements of two     *)
(* calls interleave as the statements of two threads do, and a sleep holds *)
(* up only the thread that sleeps.  The statements of a call take no time: *)
(* the clock moves only while every caller is between calls or asleep.     *)
(***************************************************************************)
CallerIds == 1..MaxCallers

IdleCaller ==
    [pc |-> "idle", now |-> 0, kept |-> <<>>, wake |-> 0, calls |-> 0, budget |-> 0]

\* the calls a thread makes in a behaviour, of n threads that start together
CallBudget(n) == IF n = 1 THEN MaxCalls ELSE MaxRaceCalls

\* tts_services.py:125  [t for t in self.request_times if now - t < 60]
Recent(times, now) == SelectSeq(times, LAMBDA t : now - t < WindowSeconds)

\* tts_services.py:129  sleep_time = 60 - (now - self.request_times[0])
SleepTime(now, times) == WindowSeconds - (now - times[1])

\* tts_services.py:128  len(self.request_times) >= self.requests_per_minute
WindowFull(times) == Len(times) >= requests_per_minute

\* tts_services.py:122 and the list comprehension of line 125
rate_limit_filter(c) ==
    /\ callers[c].pc = "idle"
    /\ callers[c].calls < callers[c].budget
    /\ callers' = [callers EXCEPT ![c].now = clock,
                                  ![c].kept = Recent(request_times, clock),
                                  ![c].pc = "store"]
    /\ UNCHANGED <<jobVars, fnVars, tts_manager, requests_per_minute, request_times, clock, issued>>

\* tts_services.py:125  the assignment to self.request_times
rate_limit_store(c) ==
    /\ callers[c].pc = "store"
    /\ request_times' = callers[c].kept
    /\ callers' = [callers EXCEPT ![c].kept = <<>>, ![c].pc = "check"]
    /\ UNCHANGED <<jobVars, fnVars, tts_manager, requests_per_minute, clock, issued>>

\* tts_services.py:128-131
rate_limit_check(c) ==
    /\ callers[c].pc = "check"
    /\ LET sleep_time == SleepTime(callers[c].now, request_times)
       IN callers' = [callers EXCEPT
              ![c].wake = IF WindowFull(request_times) /\ sleep_time > 0
                          THEN clock + sleep_time ELSE 0,
              ![c].pc = IF WindowFull(request_times) /\ sleep_time > 0
                        THEN "sleeping" ELSE "append"]
    /\ UNCHANGED <<jobVars, fnVars, tts_manager, requests_per_minute, request_times, clock, issued>>

\* tts_services.py:131  asyncio.sleep returns
rate_limit_wake(c) ==
    /\ callers[c].pc = "sleeping"
    /\ clock >= callers[c].wake
    /\ callers' = [callers EXCEPT ![c].wake = 0, ![c].pc = "append"]
    /\ UNCHANGED <<jobVars, fnVars, tts_manager, requests_per_minute, request_times, clock, issued>>

\* tts_services.py:133, and the backend call that follows the return of
\* _wait_for_rate_limit (lines 72-77)
rate_limit_append(c) ==
    /\ callers[c].pc = "append"
    /\ request_times' = Append(request_times, callers[c].now)
    /\ issued' = issued (+) SetToBag({[at |-> clock, now |-> callers[c].now]})
    /\ callers' = [callers EXCEPT ![c].now = 0, ![c].calls = @ + 1,
                                  ![c].pc = "idle"]
    /\ UNCHANGED <<jobVars, fnVars, tts_manager, requests_per_minute, clock>>

\* d seconds pass
pass_time(d) ==
    /\ \A c \in DOMAIN callers : callers[c].pc \in {"idle", "sleeping"}
    /\ clock + d <= MaxClock
    /\ clock' = clock + d
    /\ UNCHANGED <<jobVars, fnVars, tts_manager, requests_per_minute, request_times, callers, issued>>

\* time passes
tick == pass_time(WindowSeconds)

InitRL ==
    /\ active_jobs = [j \in {} |-> None]
    /\ workers = [t \in ThreadIds |-> IdleWorker]
    /\ emitted = {}
    /\ requests_per_minute \in {OpenAIRequestsPerMinute, GoogleRequestsPerMinute}
    /\ request_times = <<>>
    /\ clock = 0
    /\ callers \in {[c \in 1..n |-> [IdleCaller EXCEPT !.budget = CallBudget(n)]] :
                       n \in CallerIds}
    /\ issued = EmptyBag
    /\ tts_manager = NewTTSManager
    /\ chunker = IdleChunker
    /\ segmenter = IdleSegmenter
    /\ assembler = IdleAssembler
    /\ classifier = IdleClassifier
    /\ preparation = IdlePreparation
    /\ pdf_processor = NewPDFProcessor

NextRL ==
    \/ \E c \in CallerIds : c \in DOMAIN callers /\ rate_limit_filter(c)
    \/ \E c \in CallerIds : c \in DOMAIN callers /\ rate_limit_store(c)
    \/ \E c \in CallerIds : c \in DOMAIN callers /\ rate_limit_check(c)
    \/ \E c \in CallerIds : c \in DOMAIN callers /\ rate_limit_wake(c)
    \/ \E c \in CallerIds : c \in DOMAIN callers /\ rate_limit_append(c)
    \/ tick

SpecRL == InitRL /\ [][NextRL]_vars

(***************************************************************************)
(* Two jobs in conversion at the same time: one thread makes most of the   *)
(* calls, the other makes a single call, and the clock is read every half  *)
(* minute.  Of the interleavings of the two threads, those in which a      *)
(* thread is left alone from the start of a call until it sleeps or        *)
(* returns.                                                                *)
(***************************************************************************)
HalfWindow == 30        \* seconds between two readings of the clock

SharedInit ==
    /\ active_jobs = [j \in {} |-> None]
    /\ workers = [t \in ThreadIds |-> IdleWorker]
    /\ emitted = {}
    /\ requests_per_minute = OpenAIRequestsPerMinute
    /\ request_times = <<>>
    /\ clock = 0
    /\ callers = <<[IdleCaller EXCEPT !.budget = MaxCalls],
                   [IdleCaller EXCEPT !.budget = 1]>>
    /\ issued = EmptyBag
    /\ tts_manager = NewTTSManager
    /\ chunker = IdleChunker
    /\ segmenter = IdleSegmenter
    /\ assembler = IdleAssembler
    /\ classifier = IdleClassifier
    /\ preparation = IdlePreparation
    /\ pdf_processor = NewPDFProcessor

\* no other thread is inside a call
Undisturbed(c) ==
    \A d \in DOMAIN callers \ {c} : callers[d].pc \in {"idle", "sleeping"}

SharedNext ==
    \/ \E c \in {1, 2} : Undisturbed(c) /\ rate_limit_filter(c)
    \/ \E c \in {1, 2} : Undisturbed(c) /\ rate_limit_store(c)
    \/ \E c \in {1, 2} : Undisturbed(c) /\ rate_limit_check(c)
    \/ \E c \in {1, 2} : Undisturbed(c) /\ rate_limit_wake(c)
    \/ \E c \in {1, 2} : Undisturbed(c) /\ rate_limit_append(c)
    \/ pass_time(HalfWindow)

SharedSpec == SharedInit /\ [][SharedNext]_vars

(***************************************************************************)
(* TTSManager (tts_services.py:254-272): the registry of backends by name  *)
(* and the name of the default backend.  initialize_tts_services           *)
(* (app.py:43-78) registers the backends that are configured and then      *)
(* calls set_default_service with the configured name, registered or not.  *)
(***************************************************************************)
ServiceNames == {"openai", "google", "azure", "polly"}
ServiceClasses == {"OpenAITTSService", "GoogleTTSService"}

\* the default is left as it is
KeepDefault(default_service, name) == default_service

\* tts_services.py:264-265  if self.default_service is None: ... = name
FirstDefault(default_service, name) ==
    IF default_service = None THEN name ELSE default_service

\* tts_services.py:261-265
add_service(name, service) ==
    /\ tts_manager' =
          [services |-> (name :> service) @@ tts_manager.services,
           default_service |-> FirstDefault(tts_manager.default_service, name),
           raised |-> None]
    /\ UNCHANGED <<jobVars, fnVars, requests_per_minute, request_times, clock,
                   callers, issued>>

\* tts_services.py:267-272
set_default_service(name) ==
    /\ tts_manager' =
          IF name \in DOMAIN tts_manager.services
          THEN [tts_manager EXCEPT !.default_service = name, !.raised = None]
          ELSE [tts_manager EXCEPT !.raised = "ValueError"]
    /\ UNCHANGED <<jobVars, fnVars, requests_per_minute, request_times, clock,
                   callers, issued>>

ManagerInit ==
    /\ active_jobs = [j \in {} |-> None]
    /\ workers = [t \in ThreadIds |-> IdleWorker]
    /\ emitted = {}
    /\ requests_per_minute = OpenAIRequestsPerMinute
    /\ request_times = <<>>
    /\ clock = 0
    /\ callers = <<>>
    /\ issued = EmptyBag
    /\ tts_manager = NewTTSManager
    /\ chunker = IdleChunker
    /\ segmenter = IdleSegmenter
    /\ assembler = IdleAssembler
    /\ classifier = IdleClassifier
    /\ preparation = IdlePreparation
    /\ pdf_processor = NewPDFProcessor

ManagerNext ==
    \/ \E name \in ServiceNames, service \in ServiceClasses :
          add_service(name, service)
    \/ \E name \in ServiceNames : set_default_service(name)

ManagerSpec == ManagerInit /\ [][ManagerNext]_vars

(***************************************************************************)
(* PDFProcessor.chunk_text_for_tts (pdf_processor.py:187-222).  A text is  *)
(* a sequence of characters; the texts given to the chunker are made of    *)
(* two letters, the blank and two of the sentence terminators.             *)
(***************************************************************************)
Letters == {"a", "b"}
Whitespace == {" ", "\t", "\n"}
Terminators == {".", "!", "?"}
Chars == Letters \cup {" "} \cup {".", "!"}

RECURSIVE TextsOfLen(_)
TextsOfLen(n) ==
    IF n = 0 THEN {<<>>}
    ELSE {Append(t, c) : t \in TextsOfLen(n - 1), c \in Chars}

Texts == UNION {TextsOfLen(n) : n \in 0..MaxTextLen}

\* The pieces of s between the maximal runs of characters of seps, the empty
\* pieces at the ends included: re.split(r'[.!?]+', text) for the
\* terminators (pdf_processor.py:190).
RECURSIVE SplitFrom(_, _, _, _)
SplitFrom(s, i, piece, seps) ==
    IF i > Len(s) THEN <<piece>>
    ELSE IF s[i] \in seps
         THEN IF i > 1 /\ s[i - 1] \in seps
              THEN SplitFrom(s, i + 1, piece, seps)
              ELSE <<piece>> \o SplitFrom(s, i + 1, <<>>, seps)
         ELSE SplitFrom(s, i + 1, Append(piece, s[i]), seps)

ReSplit(text) == SplitFrom(text, 1, <<>>, Terminators)

\* str.split(): the maximal runs of characters that are not whitespace
StrSplit(s) == SelectSeq(SplitFrom(s, 1, <<>>, Whitespace), LAMBDA w : w # <<>>)

\* str.strip()
RECURSIVE LStrip(_)
LStrip(s) ==
    IF s # <<>> /\ Head(s) \in Whitespace THEN LStrip(Tail(s)) ELSE s

RECURSIVE RStrip(_)
RStrip(s) ==
    IF s # <<>> /\ s[Len(s)] \in Whitespace
    THEN RStrip(SubSeq(s, 1, Len(s) - 1)) ELSE s

Strip(s) == RStrip(LStrip(s))

\* two sentences of a chunk put together with nothing between them
EmptySeparator == <<>>

\* pdf_processor.py:217  the separator put between two sentences of a chunk
SentenceSeparator == <<".", " ">>

\* pdf_processor.py:200 and 208  len(current_chunk) + len(x) > max_chunk_size
Exceeds(current_chunk, x, max_chunk_size) ==
    Len(current_chunk) + Len(x) > max_chunk_size

\* pdf_processor.py:207-215: the loop over the words of a sentence
RECURSIVE PackWords(_, _, _, _)
PackWords(words, chunks, current_chunk, max_chunk_size) ==
    IF words = <<>>
    THEN [chunks |-> chunks, current_chunk |-> current_chunk]
    ELSE LET word == Head(words) IN
         IF Exceeds(current_chunk, word, max_chunk_size)
         THEN IF current_chunk # <<>>
              THEN PackWords(Tail(words), Append(chunks, Strip(current_chunk)),
                             word, max_chunk_size)
              ELSE PackWords(Tail(words), Append(chunks, word),
                             current_chunk, max_chunk_size)
         ELSE PackWords(Tail(words), chunks,
                        IF current_chunk # <<>>
                        THEN current_chunk \o <<" ">> \o word ELSE word,
                        max_chunk_size)

\* pdf_processor.py:194-220: the loop over the sentences, and the last chunk
RECURSIVE PackSentences(_, _, _, _)
PackSentences(sentences, chunks, current_chunk, max_chunk_size) ==
    IF sentences = <<>>
    THEN IF current_chunk # <<>>
         THEN Append(chunks, Strip(current_chunk)) ELSE chunks
    ELSE LET sentence == Strip(Head(sentences))
             rest == Tail(sentences)
         IN IF sentence = <<>>
            THEN PackSentences(rest, chunks, current_chunk, max_chunk_size)
            ELSE IF Exceeds(current_chunk, sentence, max_chunk_size)
            THEN IF current_chunk # <<>>
                 THEN PackSentences(rest, Append(chunks, Strip(current_chunk)),
                                    sentence, max_chunk_size)
                 ELSE LET packed == PackWords(StrSplit(sentence), chunks,
                                              current_chunk, max_chunk_size)
                      IN PackSentences(rest, packed.chunks,
                                       packed.current_chunk, max_chunk_size)
            ELSE PackSentences(rest, chunks,
                               IF current_chunk # <<>>
                               THEN current_chunk \o SentenceSeparator \o sentence
                               ELSE sentence,
                               max_chunk_size)

\* pdf_processor.py:187-222
ChunkTextForTts(text, max_chunk_size) ==
    PackSentences(ReSplit(text), <<>>, <<>>, max_chunk_size)

\* a call of the chunker returns
chunk_text_for_tts ==
    /\ chunker.pc = "call"
    /\ chunker' = [chunker EXCEPT
           !.pc = "return",
           !.chunks = ChunkTextForTts(chunker.text, chunker.max_chunk_size)]
    /\ UNCHANGED <<jobVars, rlVars, segmenter, assembler, classifier, preparation>>

ChunkerInit ==
    /\ active_jobs = [j \in {} |-> None]
    /\ workers = [t \in ThreadIds |-> IdleWorker]
    /\ emitted = {}
    /\ requests_per_minute = OpenAIRequestsPerMinute
    /\ request_times = <<>>
    /\ clock = 0
    /\ callers = <<>>
    /\ issued = EmptyBag
    /\ tts_manager = NewTTSManager
    /\ chunker \in {[pc |-> "call", text |-> text, max_chunk_size |-> m,
                     chunks |-> <<>>] : text \in Texts, m \in 1..MaxChunkSize}
    /\ segmenter = IdleSegmenter
    /\ assembler = IdleAssembler
    /\ classifier = IdleClassifier
    /\ preparation = IdlePreparation
    /\ pdf_processor = NewPDFProcessor

ChunkerNext == chunk_text_for_tts

ChunkerSpec == ChunkerInit /\ [][ChunkerNext]_vars

(***************************************************************************)
(* PDFProcessor.detect_chapters (pdf_processor.py:78-124).  A page is its  *)
(* number and its text; the pages given to the segmenter are those page    *)
(* filtering kept, so their numbers ascend strictly and may leave gaps.    *)
(* Two of the page texts begin with a chapter indicator, one does not.     *)
(***************************************************************************)
MaxPage == 4            \* pages of the document given to the segmenter

\* texts that re.search finds a chapter pattern in (pdf_processor.py:87-96)
HeadingTexts == {"Chapter 1", "Chapter 2", "1. Scope", "1. References"}
PageTexts == HeadingTexts \cup {"plain text"}

\* a pattern that every text matches
MatchesAnyText(text) == TRUE

\* pdf_processor.py:95-96  re.search(pattern, text, ...) for some pattern
MatchesChapterPattern(text) == text \in HeadingTexts

\* pdf_processor.py:126-138: of a heading of one line, the line
ExtractChapterTitle(text) == text

\* the page lists whose last page number is at most n
RECURSIVE PagesUpTo(_)
PagesUpTo(n) ==
    IF n = 0 THEN {<<>>}
    ELSE PagesUpTo(n - 1) \cup
         {Append(pages, [page_number |-> n, text |-> text]) :
             pages \in PagesUpTo(n - 1), text \in PageTexts}

PageLists == PagesUpTo(MaxPage)

\* the previous section ends on the page of the next heading
EndAtHeading(page_number) == page_number

\* pdf_processor.py:99  current_section['end_page'] = page.page_number - 1
EndBeforeHeading(page_number) == page_number - 1

\* the page's text is not added to the open section
KeepContent(content, text) == content

\* pdf_processor.py:116  current_section['content'] += text + '\n'
AddContent(content, text) == content \o text \o "\n"

\* pdf_processor.py:82-116: the loop over the pages from page n on;
\* current_section is <<>> for None and <<section>> otherwise
RECURSIVE DetectFrom(_, _, _, _)
DetectFrom(pages, n, sections, current_section) ==
    IF n > Len(pages)
    THEN [sections |-> sections, current_section |-> current_section]
    ELSE LET page == pages[n]
             closed ==
                 IF current_section # <<>>
                 THEN Append(sections,
                          [current_section[1] EXCEPT
                              !.end_page = EndBeforeHeading(page.page_number)])
                 ELSE sections
             started ==
                 <<[title |-> ExtractChapterTitle(page.text),
                    start_page |-> page.page_number,
                    end_page |-> page.page_number,
                    content |-> "",
                    section_type |-> "chapter"]>>
             after == IF MatchesChapterPattern(page.text)
                      THEN [sections |-> closed, current_section |-> started]
                      ELSE [sections |-> sections,
                            current_section |-> current_section]
             \* pdf_processor.py:114-116
             filled ==
                 IF after.current_section # <<>>
                 THEN <<[after.current_section[1] EXCEPT
                            !.content = AddContent(@, page.text)]>>
                 ELSE <<>>
         IN DetectFrom(pages, n + 1, after.sections, filled)

\* pdf_processor.py:78-124
DetectChapters(pages) ==
    LET looped == DetectFrom(pages, 1, <<>>, <<>>)
    IN \* pdf_processor.py:118-121: close the final section
       IF looped.current_section # <<>>
       THEN Append(looped.sections,
                [looped.current_section[1] EXCEPT
                    !.end_page = pages[Len(pages)].page_number])
       ELSE looped.sections

\* a call of the segmenter returns
detect_chapters ==
    /\ segmenter.pc = "call"
    /\ segmenter' = [segmenter EXCEPT
           !.pc = "return",
           !.sections = DetectChapters(segmenter.pages)]
    /\ UNCHANGED <<jobVars, rlVars, chunker, assembler, classifier, preparation>>

SegmenterInit ==
    /\ active_jobs = [j \in {} |-> None]
    /\ workers = [t \in ThreadIds |-> IdleWorker]
    /\ emitted = {}
    /\ requests_per_minute = OpenAIRequestsPerMinute
    /\ request_times = <<>>
    /\ clock = 0
    /\ callers = <<>>
    /\ issued = EmptyBag
    /\ tts_manager = NewTTSManager
    /\ chunker = IdleChunker
    /\ segmenter \in {[pc |-> "call", pages |-> pages, sections |-> <<>>] :
                         pages \in PageLists}
    /\ assembler = IdleAssembler
    /\ classifier = IdleClassifier
    /\ preparation = IdlePreparation
    /\ pdf_processor = NewPDFProcessor

SegmenterNext == detect_chapters

SegmenterSpec == SegmenterInit /\ [][SegmenterNext]_vars

(***************************************************************************)
(* AudioProcessor.combine_audio_chunks (audio_processor.py:47-86).  The    *)
(* chunks given to the assembler hold decodable audio and carry one of two *)
(* chapter labels or none; the pause is given in tenths of a second.       *)
(***************************************************************************)
MaxAudioChunks == 3     \* chunks given to the assembler

\* audio_processor.py:21  chapter: Optional[str] = None
ChapterLabels == {None, SectionTitle(1), SectionTitle(2)}
AudioData == {Audio(ChunkText(1, 1)), Audio(ChunkText(2, 1))}
PauseDurations == {5, 20}

RECURSIVE AudioChunksOfLen(_)
AudioChunksOfLen(n) ==
    IF n = 0 THEN {<<>>}
    ELSE {Append(chunks, [audio_data |-> a, text |-> "", chapter |-> c]) :
             chunks \in AudioChunksOfLen(n - 1),
             a \in AudioData, c \in ChapterLabels}

AudioChunkLists == UNION {AudioChunksOfLen(n) : n \in 0..MaxAudioChunks}

\* audio_processor.py:55-77: the loop over the chunks from chunk k on
RECURSIVE CombineFrom(_, _, _)
CombineFrom(chunks, k, combined_audio) ==
    IF k > Len(chunks) THEN combined_audio
    ELSE LET with_chunk == Append(combined_audio, chunks[k].audio_data)
         IN CombineFrom(chunks, k + 1,
                        IF PauseAfter(chunks, k)
                        THEN Append(with_chunk, "silence") ELSE with_chunk)

\* audio_processor.py:47-86
CombineAudioChunks(chunks) == CombineFrom(chunks, 1, <<>>)

\* a call of the assembler returns
combine_audio_chunks ==
    /\ assembler.pc = "call"
    /\ assembler' = [assembler EXCEPT
           !.pc = "return",
           !.combined_audio = CombineAudioChunks(assembler.chunks)]
    /\ UNCHANGED <<jobVars, rlVars, chunker, segmenter, classifier, preparation>>

\* the length, in milliseconds, of a decoded chunk and of the silence
\* AudioSegment.silent(duration=int(chapter_pause_duration * 1000)) makes
DurationMs(segment, chapter_pause_duration) ==
    IF segment = "silence" THEN (chapter_pause_duration * 1000) \div 10
    ELSE IF segment = Audio(ChunkText(1, 1)) THEN 1500 ELSE 2700

\* audio_processor.py:22, 179-180  chunk.duration: the measured length of
\* the chunk's audio; times are kept in milliseconds
ChunkDuration(chunk) == DurationMs(chunk.audio_data, 0)

\* audio_processor.py:165-185: the loop over the chunks from chunk k on, and
\* lines 187-193 at its end
RECURSIVE MarkersFrom(_, _, _, _, _, _)
MarkersFrom(chunks, k, chapters, current_time, current_chapter, chapter_start) ==
    LET closed == IF Truthy(current_chapter)
                  THEN Append(chapters, [title |-> current_chapter,
                                         start_time |-> chapter_start,
                                         end_time |-> current_time])
                  ELSE chapters
    IN IF k > Len(chunks) THEN closed
       ELSE LET chunk == chunks[k]
                starts == Truthy(chunk.chapter) /\ chunk.chapter # current_chapter
            IN MarkersFrom(chunks, k + 1,
                           IF starts THEN closed ELSE chapters,
                           current_time + ChunkDuration(chunk),
                           IF starts THEN chunk.chapter ELSE current_chapter,
                           IF starts THEN current_time ELSE chapter_start)

\* audio_processor.py:158-196
CreateChapterMarkers(chunks) == MarkersFrom(chunks, 1, <<>>, 0, None, 0)

\* audio[start_ms:end_ms] of pydub: the parts of the segments from segment n
\* on, the first of which begins at offset, that lie in [start_ms, end_ms)
RECURSIVE SliceFrom(_, _, _, _, _, _)
SliceFrom(audio, n, offset, start_ms, end_ms, pause) ==
    IF n > Len(audio) THEN <<>>
    ELSE LET d == DurationMs(audio[n], pause)
             lo == IF start_ms > offset THEN start_ms ELSE offset
             hi == IF end_ms < offset + d THEN end_ms ELSE offset + d
         IN (IF lo < hi
             THEN <<[segment |-> audio[n], from |-> lo - offset, to |-> hi - offset]>>
             ELSE <<>>)
            \o SliceFrom(audio, n + 1, offset + d, start_ms, end_ms, pause)

\* audio_processor.py:205-209: the audio cut out for every chapter
SplitByChapters(audio, chapters, pause) ==
    [i \in 1..Len(chapters) |->
        SliceFrom(audio, 1, 0, chapters[i].start_time, chapters[i].end_time, pause)]

\* a call of create_chapter_markers for the assembled chunks returns
create_chapter_markers ==
    /\ assembler.pc = "return"
    /\ assembler' = [assembler EXCEPT
           !.pc = "marked",
           !.chapters = CreateChapterMarkers(assembler.chunks)]
    /\ UNCHANGED <<jobVars, rlVars, chunker, segmenter, classifier, preparation>>

\* a call of split_by_chapters for the assembled audio and its markers returns
split_by_chapters ==
    /\ assembler.pc = "marked"
    /\ assembler' = [assembler EXCEPT
           !.pc = "split",
           !.chapter_audio = SplitByChapters(assembler.combined_audio,
                                             assembler.chapters,
                                             assembler.chapter_pause_duration)]
    /\ UNCHANGED <<jobVars, rlVars, chunker, segmenter, classifier, preparation>>

AssemblerInit ==
    /\ active_jobs = [j \in {} |-> None]
    /\ workers = [t \in ThreadIds |-> IdleWorker]
    /\ emitted = {}
    /\ requests_per_minute = OpenAIRequestsPerMinute
    /\ request_times = <<>>
    /\ clock = 0
    /\ callers = <<>>
    /\ issued = EmptyBag
    /\ tts_manager = NewTTSManager
    /\ chunker = IdleChunker
    /\ segmenter = IdleSegmenter
    /\ assembler \in {[pc |-> "call", chunks |-> chunks,
                       chapter_pause_duration |-> pause,
                       combined_audio |-> <<>>,
                       chapters |-> <<>>, chapter_audio |-> <<>>] :
                         chunks \in AudioChunkLists, pause \in PauseDurations}
    /\ classifier = IdleClassifier
    /\ preparation = IdlePreparation
    /\ pdf_processor = NewPDFProcessor

AssemblerNext ==
    \/ combine_audio_chunks
    \/ create_chapter_markers
    \/ split_by_chapters

AssemblerSpec == AssemblerInit /\ [][AssemblerNext]_vars

(***************************************************************************)
(* ContentFilter.analyze_page (content_filter.py:66-159).  A text is named *)
(* by what the classifier counts in it: its words, the matches of the      *)
(* keyword sets, its lines and those of them that match a pattern of a     *)
(* table of contents.  The front indicators of _analyze_page_position are  *)
(* four of the copyright keywords, so a match of a front indicator is a    *)
(* match of a copyright keyword too.  A score is a fraction <<n, d>>.      *)
(***************************************************************************)
\* content_filter.py:71
MinPageWords == 50

\* config.py:37-41: the keys of the filter flags
Flags == {"SKIP_COPYRIGHT", "SKIP_ACKNOWLEDGMENTS", "SKIP_TOC", "SKIP_INDEX",
          "SKIP_BIBLIOGRAPHY"}

\* a configuration is the set of the flags that are true in it
ConfigGet(config, key) == key \in config

TextWordCounts == {0, 13, 200, 500}
MatchCounts == {0, 1}
LineCounts == {<<0, 1>>, <<1, 5>>, <<1, 2>>}

\* what is counted in a text
TextStats ==
    {st \in [words : TextWordCounts, front : MatchCounts,
             publishing : MatchCounts, acknowledgment : MatchCounts,
             index : MatchCounts, promotional : MatchCounts,
             toc_lines : {lc[1] : lc \in LineCounts},
             lines : {lc[2] : lc \in LineCounts}] :
        /\ <<st.toc_lines, st.lines>> \in LineCounts
        /\ st.words = 0 =>
              /\ st.front + st.publishing + st.acknowledgment = 0
              /\ st.index + st.promotional + st.toc_lines = 0}

TextName(st) ==
    "words " \o ToString(st.words)
        \o ", front " \o ToString(st.front)
        \o ", publishing " \o ToString(st.publishing)
        \o ", acknowledgment " \o ToString(st.acknowledgment)
        \o ", index " \o ToString(st.index)
        \o ", promotional " \o ToString(st.promotional)
        \o ", lines " \o ToString(st.toc_lines) \o "/" \o ToString(st.lines)

\* the texts of the pages that open a chapter, and of a page of thanks
ChapterStats(words) ==
    [words |-> words, front |-> 0, publishing |-> 0, acknowledgment |-> 0,
     index |-> 0, promotional |-> 0, toc_lines |-> 0, lines |-> 10]

NamedTexts ==
    [text \in {"Chapter 1", "Chapter 2", "1. Scope", "1. References",
               "plain text", "Acknowledgments"} |->
        CASE text = "Chapter 1" -> ChapterStats(200)
          [] text = "Chapter 2" -> ChapterStats(150)
          [] text = "1. Scope" -> ChapterStats(60)
          [] text = "1. References" -> ChapterStats(120)
          [] text = "plain text" -> ChapterStats(120)
          [] text = "Acknowledgments" ->
                [ChapterStats(30) EXCEPT !.acknowledgment = 1, !.lines = 3]]

Corpus ==
    [text \in {TextName(st) : st \in TextStats} |->
        CHOOSE st \in TextStats : TextName(st) = text] @@ NamedTexts

Stats(text) == Corpus[text]

\* content_filter.py:113  len(text.split())
Words(text) == Stats(text).words

\* the front indicators are not among the copyright keywords
KeywordMatchesDisjoint(text, keywords) ==
    CASE keywords = "copyright_keywords" -> Stats(text).publishing
      [] keywords = "acknowledgment_keywords" -> Stats(text).acknowledgment
      [] keywords = "index_keywords" -> Stats(text).index
      [] keywords = "promotional_keywords" -> Stats(text).promotional
      [] keywords = "front_indicators" -> Stats(text).front

\* content_filter.py:117-119: the matches of the keywords of a set in the text
KeywordMatches(text, keywords) ==
    CASE keywords = "copyright_keywords" ->
             Stats(text).front + Stats(text).publishing
      [] keywords = "acknowledgment_keywords" -> Stats(text).acknowledgment
      [] keywords = "index_keywords" -> Stats(text).index
      [] keywords = "promotional_keywords" -> Stats(text).promotional
      [] keywords = "front_indicators" -> Stats(text).front

\* fractions
Gt(a, b) == a[1] * b[2] > b[1] * a[2]
Ge(a, b) == a[1] * b[2] >= b[1] * a[2]
Zero == <<0, 1>>
One == <<1, 1>>

\* min(x, 1.0)
Min1(x) == IF Ge(x, One) THEN One ELSE x

\* matches / (word_count / 100), without the min
UnclampedKeywordScore(text, keywords) ==
    IF Words(text) = 0 THEN Zero
    ELSE <<100 * KeywordMatches(text, keywords), Words(text)>>

\* content_filter.py:111-123
KeywordScore(text, keywords) ==
    IF Words(text) = 0 THEN Zero
    ELSE Min1(<<100 * KeywordMatches(text, keywords), Words(text)>>)

\* content_filter.py:125-148
TocScore(text) ==
    IF Stats(text).lines > 0
    THEN Min1(<<2 * Stats(text).toc_lines, Stats(text).lines>>)
    ELSE Zero

\* content_filter.py:150-159
PagePosition(page, text) ==
    IF page.page_number <= 5
    THEN LET score == KeywordScore(text, "front_indicators")
         IN Min1(<<2 * score[1], score[2]>>)
    ELSE Zero

\* content_filter.py:13-17
FilterResult(should_skip, reason, confidence) ==
    [should_skip |-> should_skip, reason |-> reason, confidence |-> confidence]

\* a page of one word less is long enough
TooFewWordsLate(word_count) == word_count < MinPageWords - 1

\* content_filter.py:71
TooFewWords(word_count) == word_count < MinPageWords

\* a rule fires at its threshold too
AtLeast(score, threshold) == Ge(score, threshold)

\* content_filter.py:77, 83, 89, 95, 101, 106  score > threshold
Above(score, threshold) == Gt(score, threshold)

\* the rules with the index rule put first
AnalyzePageIndexFirst(page, config) ==
    LET text == page.text
        copyright_score == KeywordScore(text, "copyright_keywords")
        ack_score == KeywordScore(text, "acknowledgment_keywords")
        toc_score == TocScore(text)
        index_score == KeywordScore(text, "index_keywords")
        promo_score == KeywordScore(text, "promotional_keywords")
        position_score == PagePosition(page, text)
    IN IF ConfigGet(config, "SKIP_INDEX") /\ Above(index_score, <<3, 10>>)
       THEN FilterResult(TRUE, "Index/bibliography", index_score)
       ELSE IF TooFewWords(page.word_count)
       THEN FilterResult(TRUE, "Too few words", <<9, 10>>)
       ELSE IF ConfigGet(config, "SKIP_COPYRIGHT")
               /\ Above(copyright_score, <<3, 10>>)
       THEN FilterResult(TRUE, "Copyright/publication page", copyright_score)
       ELSE IF ConfigGet(config, "SKIP_ACKNOWLEDGMENTS")
               /\ Above(ack_score, <<2, 10>>)
       THEN FilterResult(TRUE, "Acknowledgments/dedication", ack_score)
       ELSE IF ConfigGet(config, "SKIP_TOC") /\ Above(toc_score, <<4, 10>>)
       THEN FilterResult(TRUE, "Table of contents", toc_score)
       ELSE IF ConfigGet(config, "SKIP_BIBLIOGRAPHY")
               /\ Above(promo_score, <<3, 10>>)
       THEN FilterResult(TRUE, "Promotional content", promo_score)
       ELSE IF Above(position_score, <<7, 10>>)
       THEN FilterResult(TRUE, "Likely metadata page", position_score)
       ELSE FilterResult(FALSE, "Main content", Zero)

\* content_filter.py:66-109
AnalyzePage(page, config) ==
    LET text == page.text
        copyright_score == KeywordScore(text, "copyright_keywords")
        ack_score == KeywordScore(text, "acknowledgment_keywords")
        toc_score == TocScore(text)
        index_score == KeywordScore(text, "index_keywords")
        promo_score == KeywordScore(text, "promotional_keywords")
        position_score == PagePosition(page, text)
    IN IF TooFewWords(page.word_count)
       THEN FilterResult(TRUE, "Too few words", <<9, 10>>)
       ELSE IF ConfigGet(config, "SKIP_COPYRIGHT")
               /\ Above(copyright_score, <<3, 10>>)
       THEN FilterResult(TRUE, "Copyright/publication page", copyright_score)
       ELSE IF ConfigGet(config, "SKIP_ACKNOWLEDGMENTS")
               /\ Above(ack_score, <<2, 10>>)
       THEN FilterResult(TRUE, "Acknowledgments/dedication", ack_score)
       ELSE IF ConfigGet(config, "SKIP_TOC") /\ Above(toc_score, <<4, 10>>)
       THEN FilterResult(TRUE, "Table of contents", toc_score)
       ELSE IF ConfigGet(config, "SKIP_INDEX") /\ Above(index_score, <<3, 10>>)
       THEN FilterResult(TRUE, "Index/bibliography", index_score)
       ELSE IF ConfigGet(config, "SKIP_BIBLIOGRAPHY")
               /\ Above(promo_score, <<3, 10>>)
       THEN FilterResult(TRUE, "Promotional content", promo_score)
       ELSE IF Above(position_score, <<7, 10>>)
       THEN FilterResult(TRUE, "Likely metadata page", position_score)
       ELSE FilterResult(FALSE, "Main content", Zero)

\* the pages given to the classifier: on either side of the fifth page and
\* of the least word count, the word count that of the text or another
ClassifierPages ==
    {[page_number |-> n, text |-> TextName(st), word_count |-> wc] :
        n \in {5, 6}, st \in TextStats, wc \in {30, 49, 50, 200}}

\* a call of the classifier returns
analyze_page ==
    /\ classifier.pc = "call"
    /\ classifier' = [classifier EXCEPT
           !.pc = "return",
           !.result = AnalyzePage(classifier.page, classifier.config)]
    /\ UNCHANGED <<jobVars, rlVars, chunker, segmenter, assembler, preparation>>

ClassifierInit ==
    /\ active_jobs = [j \in {} |-> None]
    /\ workers = [t \in ThreadIds |-> IdleWorker]
    /\ emitted = {}
    /\ requests_per_minute = OpenAIRequestsPerMinute
    /\ request_times = <<>>
    /\ clock = 0
    /\ callers = <<>>
    /\ issued = EmptyBag
    /\ tts_manager = NewTTSManager
    /\ chunker = IdleChunker
    /\ segmenter = IdleSegmenter
    /\ assembler = IdleAssembler
    /\ classifier \in {[pc |-> "call", page |-> page, config |-> config,
                        result |-> None] :
                          page \in ClassifierPages, config \in SUBSET Flags}
    /\ preparation = IdlePreparation
    /\ pdf_processor = NewPDFProcessor

ClassifierNext == analyze_page

ClassifierSpec == ClassifierInit /\ [][ClassifierNext]_vars

(***************************************************************************)
(* process_conversion, from the extracted pages to the kept sections       *)
(* (app.py:272-286): filter_pages, detect_chapters, filter_sections.  The  *)
(* filter flags of the request are in settings; the configuration given to *)
(* the filters is app.config.                                              *)
(***************************************************************************)
MaxDocPages == 3        \* pages of a document that is prepared

\* app.py:30, config.py:37-41: app.config, every flag true
AppConfig == Flags

\* the filter flags a conversion request may carry
RequestFlags == {"skipCopyright", "skipAcknowledgments", "skipToc",
                 "skipIndex", "skipPromotional"}

\* content_filter.py:51-64
FilterPages(pages, config) ==
    SelectSeq(pages, LAMBDA page : ~AnalyzePage(page, config).should_skip)

\* content_filter.py:181-187: the flags that have a skip title occurring in
\* the title
SkipTitleFlags(title) ==
    IF title = "1. References" THEN {"SKIP_INDEX"} ELSE {}

\* the pages whose text detect_chapters put into the content of the section
SectionPages(section, pages) ==
    SelectSeq(pages, LAMBDA page : /\ section.start_page <= page.page_number
                                   /\ page.page_number <= section.end_page)

\* content_filter.py:194  len(section.content.split())
RECURSIVE SumWords(_)
SumWords(pages) ==
    IF pages = <<>> THEN 0 ELSE Words(Head(pages).text) + SumWords(Tail(pages))

ContentWords(section, pages) == SumWords(SectionPages(section, pages))

\* a section of 200 words is short
TooShortSectionStrict(content_words) == content_words <= 200

\* content_filter.py:194
TooShortSection(content_words) == content_words < 100

\* content_filter.py:175-197
ShouldKeepSection(section, pages, config) ==
    /\ \A flag \in SkipTitleFlags(section.title) : ~ConfigGet(config, flag)
    /\ ~TooShortSection(ContentWords(section, pages))

\* content_filter.py:161-173; the content of a kept section is cleaned of
\* characters, not of words the model counts
FilterSections(sections, pages, config) ==
    SelectSeq(sections, LAMBDA section : ShouldKeepSection(section, pages, config))

\* pdf_processor.py:37-76: the pages of a document, numbered from 1, the
\* word count of a page that of its text
PreparedTexts ==
    {"Chapter 1", "Chapter 2", "1. Scope", "1. References", "plain text",
     "Acknowledgments",
     TextName([ChapterStats(200) EXCEPT !.front = 1, !.publishing = 1,
                                        !.lines = 1]),
     TextName([ChapterStats(200) EXCEPT !.promotional = 1, !.lines = 1])}

ExtractedDocuments ==
    {[n \in 1..MaxDocPages |->
         [page_number |-> n, text |-> texts[n], word_count |-> Words(texts[n])]] :
        texts \in [1..MaxDocPages -> PreparedTexts]}

\* app.py:277-280
filter_pages ==
    /\ preparation.pc = "filter_pages"
    /\ preparation' = [preparation EXCEPT
           !.pc = "detect_chapters",
           !.filtered_pages = FilterPages(preparation.pages, AppConfig)]
    /\ UNCHANGED <<jobVars, rlVars, chunker, segmenter, assembler, classifier>>

\* app.py:282-285
detect_filtered ==
    /\ preparation.pc = "detect_chapters"
    /\ preparation' = [preparation EXCEPT
           !.pc = "filter_sections",
           !.sections = DetectChapters(preparation.filtered_pages)]
    /\ UNCHANGED <<jobVars, rlVars, chunker, segmenter, assembler, classifier>>

\* app.py:286
filter_sections ==
    /\ preparation.pc = "filter_sections"
    /\ preparation' = [preparation EXCEPT
           !.pc = "prepared",
           !.filtered_sections =
               FilterSections(preparation.sections, preparation.filtered_pages,
                              AppConfig)]
    /\ UNCHANGED <<jobVars, rlVars, chunker, segmenter, assembler, classifier>>

PreparationInit ==
    /\ active_jobs = [j \in {} |-> None]
    /\ workers = [t \in ThreadIds |-> IdleWorker]
    /\ emitted = {}
    /\ requests_per_minute = OpenAIRequestsPerMinute
    /\ request_times = <<>>
    /\ clock = 0
    /\ callers = <<>>
    /\ issued = EmptyBag
    /\ tts_manager = NewTTSManager
    /\ chunker = IdleChunker
    /\ segmenter = IdleSegmenter
    /\ assembler = IdleAssembler
    /\ classifier = IdleClassifier
    /\ preparation \in {[IdlePreparation EXCEPT !.pc = "filter_pages",
                                               !.settings = settings,
                                               !.pages = pages] :
                           settings \in SUBSET RequestFlags,
                           pages \in ExtractedDocuments}
    /\ pdf_processor = NewPDFProcessor

PreparationNext == filter_pages \/ detect_filtered \/ filter_sections

PreparationSpec == PreparationInit /\ [][PreparationNext]_vars

(***************************************************************************)
(* The job state machine.                                                  *)
(***************************************************************************)
Status(j) == active_jobs[j].status

Started == {t \in DOMAIN workers : Running(t)}

\* C1: once a job's status is completed, failed or cancelled, no step of a
\* handler or of a worker writes a different status to that job.
C1_TerminalIsFinal ==
    [][\A j \in Uploaded :
          Status(j) \in Terminal => active_jobs'[j].status = Status(j)]_vars

\* C2: a job's status becomes cancelled only from processing.
C2_CancelledOnlyFromProcessing ==
    [][\A j \in Uploaded :
          (active_jobs'[j].status = "cancelled" /\ Status(j) # "cancelled")
              => Status(j) = "processing"]_vars

\* C3: a worker that found the job cancelled at a checkpoint (the exception
\* it handles is the cancellation) does not go on to report a failure: it
\* neither sets failed nor emits conversion_error for the cancellation.
C3_CancelNeverFails ==
    /\ \A t \in Started :
          ~(workers[t].pc = "emit_error" /\ workers[t].e = CancelMsg)
    /\ \A ev \in emitted : ev.event = "conversion_error" => ev.data # CancelMsg

\* C4: after a cancel request has set a processing job to cancelled, the
\* worker does not write completed over it and does not emit
\* conversion_complete while the job is cancelled.
C4_NoCompletionAfterCancel ==
    [][\A t \in Started :
          Status(JobOf(t)) = "cancelled"
              => /\ active_jobs'[JobOf(t)].status # "completed"
                 /\ \A ev \in emitted' \ emitted :
                       ev.event # "conversion_complete"]_vars

\* C13: at any time at most one running worker has a given job.
C13_OneWorkerPerJob ==
    \A j \in Uploaded :
        Cardinality({t \in Started : JobOf(t) = j}) <= 1

\* C14: a worker that has slept a chunk-level backoff does not go on to
\* make the next backend call for a job that is cancelled by then: the
\* cancellation is detected before the retry call.
C14_NoCallAfterCancel ==
    [][\A t \in Started :
          (workers'[t].calls = workers[t].calls + 1 /\ workers[t].slept > 0)
              => Status(JobOf(t)) # "cancelled"]_vars

\* C15: a worker that handles an exception raised by the extraction sets
\* the job failed and goes on to report the error; it does not start
\* another pipeline attempt.
C15_ExtractionErrorIsFatal ==
    [][\A t \in Started :
          (/\ workers[t].pc = "except"
           /\ workers[t].e \in ExtractionErrors
           /\ workers'[t] # workers[t])
              => /\ workers'[t].pc = "emit_error"
                 /\ active_jobs'[JobOf(t)].status = "failed"]_vars

\* C12: every progress value stored in a job lies in [0, 1] (0..1000 in
\* thousandths), and a step of a worker inside a pipeline attempt does not
\* lower the progress of its job.
C12_ProgressInUnitInterval ==
    [][/\ \A j \in DOMAIN active_jobs' :
             /\ active_jobs'[j].progress >= 0
             /\ active_jobs'[j].progress <= 1000
       /\ \A t \in Started :
             (workers'[t] # workers[t] /\ workers[t].pc # "except")
                 => active_jobs'[JobOf(t)].progress
                        >= active_jobs[JobOf(t)].progress]_vars

(***************************************************************************)
(* The rate limiter.                                                       *)
(***************************************************************************)
Instants == {e.at : e \in BagToSet(issued)}

\* the number of backend calls issued at an instant in [from, from + 60)
IssuedIn(from) ==
    BagCardinality([e \in {x \in BagToSet(issued) :
                              x.at >= from /\ x.at < from + WindowSeconds}
                       |-> issued[e]])

\* the number of calls that recorded the request time a
RecordedAt(a) ==
    BagCardinality([e \in {x \in BagToSet(issued) : x.now = a} |-> issued[e]])

\* C6: when one thread alone uses the backend, no 60-second window that
\* starts at an instant of a call holds more issued calls than the cap.
C6_WindowCap ==
    Cardinality(DOMAIN callers) = 1
        => \A a \in Instants : IssuedIn(a) <= requests_per_minute

\* C7: when threads share the backend, every request time recorded less
\* than 60 seconds ago is in request_times as many times as it was recorded.
C7_NoRequestTimeLost ==
    \A a \in {e.now : e \in BagToSet(issued)} :
        clock - a < WindowSeconds
            => Len(SelectSeq(request_times, LAMBDA t : t = a)) = RecordedAt(a)

(***************************************************************************)
(* Chunks, chunk-level retry, job-level retry.                             *)
(***************************************************************************)
Assembling ==
    {"combine", "combine_chunk", "combine_done", "export", "export_start",
     "export_meta", "export_done", "finish", "emit_complete"}

SameChunks(audio_chunks, text_chunks) ==
    /\ Len(audio_chunks) = Len(text_chunks)
    /\ \A n \in 1..Len(text_chunks) :
          /\ audio_chunks[n].text = text_chunks[n].text
          /\ audio_chunks[n].chapter = text_chunks[n].chapter

\* C5: from the moment the audio chunks are handed to assembly until the job
\* is completed, the n-th audio chunk carries the text and the chapter label
\* of the n-th text chunk of the document's kept sections, and there are as
\* many audio chunks as text chunks.
C5_AudioFollowsText ==
    \A t \in Started :
        workers[t].pc \in Assembling
            => SameChunks(workers[t].audio_chunks,
                          AllChunks(active_jobs[JobOf(t)].doc))

\* a job completes with two or more chunks after a job-level retry
C5_Witness ==
    \E t \in Started :
        /\ workers[t].pc = "emit_complete"
        /\ workers[t].retry_count >= 1
        /\ Len(workers[t].audio_chunks) >= 2
        /\ Status(JobOf(t)) = "completed"

\* C8: for one chunk in one pipeline attempt the backend is called at most 3
\* times; the call that follows the k-th failed call (k = 1, 2) is made
\* after a sleep of 2^k seconds; the 3rd failed call ends the attempt with
\* an exception whose message ends with the message of that 3rd failure.
C8_ChunkRetry ==
    \A t \in Started :
        LET w == workers[t] IN
        /\ w.calls <= 3
        /\ w.pc \in {"tts_call", "tts_retry"} => w.calls = w.tts_retry_count
        /\ (w.pc = "tts_call" /\ w.tts_retry_count = 1) => w.slept = 2
        /\ (w.pc = "tts_call" /\ w.tts_retry_count = 2) => w.slept = 4
        /\ w.tts_retry_count <= 3
        /\ w.tts_retry_count = 3
              => /\ w.pc = "except"
                 /\ w.tts_error = "TTS error: backend failure 3"
                 /\ w.e = "TTS failed after 3 retries: TTS error: backend failure 3"

\* the third call for a chunk has failed
C8_Witness ==
    \E t \in Started :
        /\ workers[t].pc = "except"
        /\ workers[t].calls = 3
        /\ workers[t].tts_retry_count = 3

\* the third call for a chunk has succeeded in the first pipeline attempt
ThirdCallSucceeded(t) ==
    /\ workers[t].pc \in {"synth", "combine"}
    /\ workers[t].calls = 3
    /\ workers[t].retry_count = 0

CompletedAtOnce(t) ==
    /\ workers[t].pc = "emit_complete"
    /\ Status(JobOf(t)) = "completed"
    /\ workers[t].retry_count = 0

\* C11: when a chunk's call failed twice and succeeded the third time in the
\* first attempt, the worker has slept 2 + 4 = 6 seconds or more between
\* these calls, and it goes on to set the job completed without a job-level
\* retry, unless a later step of the attempt raises (another failure, or a
\* cancellation).
C11_TwoFailuresThenSuccess ==
    \A t \in ThreadIds :
        /\ [](ThirdCallSucceeded(t) => workers[t].waited >= 6)
        /\ ThirdCallSucceeded(t)
              ~> (CompletedAtOnce(t) \/ workers[t].pc = "except")

\* a job is completed in its first attempt, two retries after its last chunk
C11_Witness ==
    \E t \in Started :
        /\ CompletedAtOnce(t)
        /\ workers[t].tts_retry_count = 2
        /\ Len(workers[t].audio_chunks) >= 1

\* C9: a worker runs the pipeline at most 3 times; after the n-th failed
\* attempt (n = 1, 2) it sets progress to 0 and sleeps 5n seconds, then is
\* at the top of the loop, from where it goes to extraction (or returns);
\* the synthesis of an attempt starts from an empty list of audio chunks.
C9_JobRetry ==
    [][\A t \in Started :
          LET w == workers[t]
              v == workers'[t]
          IN /\ v.retry_count <= 3
             /\ v.pc \notin {"emit_error", "done"} => v.retry_count <= 2
             /\ w.pc = "except" => v.pc \in {"except", "loop_top", "emit_error"}
             /\ (w.pc = "except" /\ v.pc = "loop_top")
                   => /\ v.retry_count = w.retry_count + 1
                      /\ v.retry_count \in {1, 2}
                      /\ v.slept = 5 * v.retry_count
                      /\ active_jobs'[JobOf(t)].progress = 0
             /\ w.pc = "loop_top" => v.pc \in {"loop_top", "extract", "done"}
             /\ (w.pc = "convert" /\ v.pc \in {"synth", "combine"})
                   => v.audio_chunks = <<>>]_vars

\* the worker starts a third attempt, with audio left over from a failed one
C9_Witness ==
    \E t \in Started :
        /\ workers[t].pc = "extract"
        /\ workers[t].retry_count = 2
        /\ Len(workers[t].audio_chunks) >= 1

\* C10: a step sets a job's status to failed only when a worker handles the
\* exception of its third pipeline attempt, and the error field is then the
\* message of that exception; a failed job has an error message.
C10_FailedAfterThirdAttempt ==
    [][\A j \in Uploaded :
          /\ (active_jobs'[j].status = "failed" /\ Status(j) # "failed")
                => \E t \in Started :
                      /\ JobOf(t) = j
                      /\ workers[t].pc = "except"
                      /\ workers[t].retry_count = 2
                      /\ active_jobs'[j].error = workers[t].e
          /\ active_jobs'[j].status = "failed" => active_jobs'[j].error # None]_vars

\* a job has failed with the message of a third attempt's synthesis failure
C10_Witness ==
    \E j \in Uploaded :
        /\ Status(j) = "failed"
        /\ active_jobs[j].error
              = "TTS failed after 3 retries: TTS error: backend failure 3"

(***************************************************************************)
(* The chunker.                                                            *)
(***************************************************************************)
\* the chunks, in order, with a blank between two chunks
RECURSIVE JoinChunks(_)
JoinChunks(chunks) ==
    IF chunks = <<>> THEN <<>>
    ELSE IF Len(chunks) = 1 THEN chunks[1]
    ELSE chunks[1] \o <<" ">> \o JoinChunks(Tail(chunks))

\* a text with its whitespace normalized is given by its words
NormalizeWhitespace(s) == StrSplit(s)

\* the words of a text: the runs of characters that are neither whitespace
\* nor sentence terminators
WordsOf(s) ==
    SelectSeq(SplitFrom(s, 1, <<>>, Whitespace \cup Terminators),
              LAMBDA w : w # <<>>)

\* C16: every chunk returned is at most max_chunk_size long, or is one
\* single word.
C16_ChunkWithinLimit ==
    chunker.pc = "return"
        => \A n \in 1..Len(chunker.chunks) :
              \/ Len(chunker.chunks[n]) <= chunker.max_chunk_size
              \/ Len(StrSplit(chunker.chunks[n])) = 1

\* C17: the chunks put together in order, whitespace normalized, are the
\* input text, whitespace normalized.
C17_RoundTrip ==
    chunker.pc = "return"
        => NormalizeWhitespace(JoinChunks(chunker.chunks))
               = NormalizeWhitespace(chunker.text)

\* C18: the words of the chunks, chunk by chunk in order, are the words of
\* the input text in input order.
C18_SameWords ==
    chunker.pc = "return"
        => WordsOf(JoinChunks(chunker.chunks)) = WordsOf(chunker.text)

\* a text of two sentences, the first packed word by word, gave three chunks
C18_Witness ==
    /\ chunker.pc = "return"
    /\ Len(chunker.chunks) >= 3
    /\ Len(WordsOf(chunker.text)) = 3
    /\ \E n \in 1..Len(chunker.text) : chunker.text[n] \in Terminators
    /\ \E n \in 1..Len(chunker.text) : chunker.text[n] \in Whitespace

(***************************************************************************)
(* The segmenter.                                                          *)
(***************************************************************************)
\* C19: each section returned has start_page <= end_page, and of two
\* consecutive sections the earlier one's end_page is below the later one's
\* start_page.
C19_SectionsAscend ==
    segmenter.pc = "return"
        => LET sections == segmenter.sections IN
           /\ \A n \in 1..Len(sections) :
                 sections[n].start_page <= sections[n].end_page
           /\ \A n \in 1..(Len(sections) - 1) :
                 sections[n].end_page < sections[n + 1].start_page

\* two sections were returned for pages whose numbers leave a gap, and the
\* first section holds more than its heading page
C19_Witness ==
    /\ segmenter.pc = "return"
    /\ Len(segmenter.sections) >= 2
    /\ segmenter.sections[1].end_page > segmenter.sections[1].start_page
    /\ \E n \in 1..(Len(segmenter.pages) - 1) :
          segmenter.pages[n + 1].page_number > segmenter.pages[n].page_number + 1

(***************************************************************************)
(* A document without headings.                                            *)
(***************************************************************************)
\* the page lists in which no page has a heading text
HeadingFree ==
    {pages \in PageLists :
        \A n \in 1..Len(pages) : pages[n].text \notin HeadingTexts}

\* the segmenter returns no section for them
NoHeadingNoSection == \A pages \in HeadingFree : DetectChapters(pages) = <<>>

\* the workers of the jobs whose document has no section
SectionlessWorkers == {t \in Started : active_jobs[JobOf(t)].doc = <<>>}

\* C20: a document without headings has no sections; its chunk list is
\* empty, no backend call is made for it, and its job fails only by an error
\* of extraction or export or by a cancellation, never by segmentation or
\* synthesis: past the (empty) synthesis loop the worker assembles and
\* exports empty audio.
C20_NoSectionNoFailure ==
    /\ NoHeadingNoSection
    /\ \A t \in SectionlessWorkers :
          LET w == workers[t] IN
          /\ w.all_chunks = <<>>
          /\ w.audio_chunks = <<>>
          /\ w.calls = 0
          /\ w.pc \notin {"synth", "tts_call", "tts_retry", "combine_chunk"}
          /\ w.pc \in {"export", "export_start", "export_meta", "export_done",
                       "finish", "emit_complete"} => w.combined_audio = <<>>
          /\ w.pc = "except"
                => w.e \in {CancelMsg} \cup ExtractionErrors \cup ExportErrors
    /\ \A j \in Uploaded :
          (active_jobs[j].doc = <<>> /\ active_jobs[j].status = "failed")
              => active_jobs[j].error
                     \in {CancelMsg} \cup ExtractionErrors \cup ExportErrors

\* the job of a document without sections is completed, its empty audio
\* exported
C20_Witness ==
    /\ HeadingFree # {<<>>}
    /\ \E j \in Uploaded :
          /\ active_jobs[j].doc = <<>>
          /\ active_jobs[j].status = "completed"
          /\ active_jobs[j].output_file = OutputPath(j)
          /\ \E ev \in emitted :
                ev.event = "conversion_complete" /\ ev.job_id = j

(***************************************************************************)
(* Sentences longer than the limit.                                        *)
(***************************************************************************)
\* the sentences of the text as the chunker sees them: stripped, not empty
SentencesOf(text) ==
    SelectSeq([n \in 1..Len(ReSplit(text)) |-> Strip(ReSplit(text)[n])],
              LAMBDA sentence : sentence # <<>>)

\* C30: a sentence of several words that is longer than max_chunk_size is
\* packed word by word: it is not returned whole as a chunk.
C30_LongSentenceSplit ==
    chunker.pc = "return"
        => LET sentences == SentencesOf(chunker.text) IN
           \A n \in 1..Len(sentences) :
              (/\ Len(sentences[n]) > chunker.max_chunk_size
               /\ Len(StrSplit(sentences[n])) > 1)
                  => \A k \in 1..Len(chunker.chunks) :
                        chunker.chunks[k] # sentences[n]

(***************************************************************************)
(* The output location.                                                    *)
(***************************************************************************)
\* C27: a completed job has its output_file set, to the path the attempt
\* that completed it exported to.
C27_CompletedHasOutput ==
    \A j \in Uploaded :
        Status(j) = "completed"
            => /\ Truthy(active_jobs[j].output_file)
               /\ active_jobs[j].output_file = OutputPath(j)

\* a job is completed by its second attempt
C27_Witness ==
    \E t \in ThreadIds :
        /\ workers[t].pc = "emit_complete"
        /\ workers[t].retry_count = 1
        /\ Status(JobOf(t)) = "completed"
        /\ active_jobs[JobOf(t)].output_file = OutputPath(JobOf(t))

(***************************************************************************)
(* The assembler.                                                          *)
(***************************************************************************)
RECURSIVE TotalMs(_, _)
TotalMs(segments, chapter_pause_duration) ==
    IF segments = <<>> THEN 0
    ELSE DurationMs(Head(segments), chapter_pause_duration)
             + TotalMs(Tail(segments), chapter_pause_duration)

\* the label of chunk k differs from the label of the next chunk
LabelChanges(chunks, k) ==
    k < Len(chunks) /\ chunks[k].chapter # chunks[k + 1].chapter

\* the chunks in list order, a silence after every chunk whose label differs
\* from the next chunk's
RECURSIVE WithPauses(_, _)
WithPauses(chunks, k) ==
    IF k > Len(chunks) THEN <<>>
    ELSE <<chunks[k].audio_data>>
             \o (IF LabelChanges(chunks, k) THEN <<"silence">> ELSE <<>>)
             \o WithPauses(chunks, k + 1)

\* C26: the assembled audio is the chunks in list order with one silence of
\* the chapter pause after chunk i exactly when chunk i is not the last and
\* its label, absent or not, differs from the label of chunk i+1; its
\* duration is the sum of the chunk durations plus the pause times the
\* number of label changes.
C26_PauseAtLabelChange ==
    assembler.pc = "return"
        => LET chunks == assembler.chunks
               pause == assembler.chapter_pause_duration
               changes == Cardinality({k \in 1..Len(chunks) :
                                          LabelChanges(chunks, k)})
           IN /\ assembler.combined_audio = WithPauses(chunks, 1)
              /\ TotalMs(assembler.combined_audio, pause)
                    = TotalMs([k \in 1..Len(chunks) |-> chunks[k].audio_data],
                              pause)
                      + DurationMs("silence", pause) * changes

(***************************************************************************)
(* The classifier.                                                         *)
(***************************************************************************)
Classified == classifier.pc = "return"

InUnitInterval(x) == Ge(x, Zero) /\ Ge(One, x)

\* C22: a page of fewer than 50 words is dropped with confidence 0.9,
\* whatever its text, its number and the flags.
C22_ShortPageDropped ==
    (Classified /\ classifier.page.word_count < 50)
        => /\ classifier.result.should_skip
           /\ classifier.result.confidence = <<9, 10>>

\* a page of 49 words is dropped that no other rule would drop
C22_Witness ==
    /\ Classified
    /\ classifier.page.word_count = 49
    /\ classifier.result.should_skip
    /\ ~AnalyzePage([classifier.page EXCEPT !.word_count = 50],
                    classifier.config).should_skip

\* the rules of the classifier in their order: whether the rule is enabled,
\* whether its condition holds, and the decision it makes
Rules(page, config) ==
    LET text == page.text
        KeywordRule(flag, keywords, threshold, reason) ==
            [enabled |-> ConfigGet(config, flag),
             holds |-> Gt(KeywordScore(text, keywords), threshold),
             result |-> FilterResult(TRUE, reason, KeywordScore(text, keywords))]
    IN << [enabled |-> TRUE,
           holds |-> page.word_count < 50,
           result |-> FilterResult(TRUE, "Too few words", <<9, 10>>)],
          KeywordRule("SKIP_COPYRIGHT", "copyright_keywords", <<3, 10>>,
                      "Copyright/publication page"),
          KeywordRule("SKIP_ACKNOWLEDGMENTS", "acknowledgment_keywords",
                      <<2, 10>>, "Acknowledgments/dedication"),
          [enabled |-> ConfigGet(config, "SKIP_TOC"),
           holds |-> Gt(TocScore(text), <<4, 10>>),
           result |-> FilterResult(TRUE, "Table of contents", TocScore(text))],
          KeywordRule("SKIP_INDEX", "index_keywords", <<3, 10>>,
                      "Index/bibliography"),
          KeywordRule("SKIP_BIBLIOGRAPHY", "promotional_keywords", <<3, 10>>,
                      "Promotional content"),
          [enabled |-> TRUE,
           holds |-> Gt(PagePosition(page, text), <<7, 10>>),
           result |-> FilterResult(TRUE, "Likely metadata page",
                                   PagePosition(page, text))] >>

\* the rules of a page that are enabled and whose condition holds
Satisfied(page, config) ==
    {n \in 1..Len(Rules(page, config)) :
        Rules(page, config)[n].enabled /\ Rules(page, config)[n].holds}

\* C23: the decision is that of the earliest rule, in the order
\* too-few-words, copyright, acknowledgments, table of contents, index,
\* promotional, positional, that is enabled and whose condition holds; a
\* page for which there is none is kept.
C23_FirstRuleDecides ==
    Classified
        => LET rules == Rules(classifier.page, classifier.config)
               satisfied == Satisfied(classifier.page, classifier.config)
           IN IF satisfied = {}
              THEN ~classifier.result.should_skip
              ELSE \E n \in satisfied :
                      /\ \A k \in satisfied : n <= k
                      /\ classifier.result = rules[n].result

\* the copyright rule decides for a page that the index rule and the
\* positional rule would drop too
C23_Witness ==
    /\ Classified
    /\ {2, 5, 7} \subseteq Satisfied(classifier.page, classifier.config)
    /\ 1 \notin Satisfied(classifier.page, classifier.config)
    /\ classifier.result.reason = "Copyright/publication page"

\* the text that differs from text in one more match of the keywords counted
\* in field
OneMoreMatch(text, field) ==
    CASE field = "front" -> TextName([Stats(text) EXCEPT !.front = 1])
      [] field = "publishing" -> TextName([Stats(text) EXCEPT !.publishing = 1])
      [] field = "acknowledgment" ->
             TextName([Stats(text) EXCEPT !.acknowledgment = 1])
      [] field = "index" -> TextName([Stats(text) EXCEPT !.index = 1])
      [] field = "promotional" -> TextName([Stats(text) EXCEPT !.promotional = 1])

KeywordSets == {"copyright_keywords", "acknowledgment_keywords",
                "index_keywords", "promotional_keywords", "front_indicators"}

\* C24: the keyword score of a text lies in [0,1], also for a text of no
\* words, and a text of the same word count with more matches has a score
\* that is not lower.
C24_ScoreBoundedMonotone ==
    Classified
        => LET text == classifier.page.text IN
           \A keywords \in KeywordSets :
              /\ InUnitInterval(KeywordScore(text, keywords))
              /\ Words(text) = 0 => KeywordScore(text, keywords) = Zero
              /\ Words(text) > 0 =>
                    \A field \in {"front", "publishing", "acknowledgment",
                                  "index", "promotional"} :
                       LET more == OneMoreMatch(text, field) IN
                       /\ Words(more) = Words(text)
                       /\ KeywordMatches(more, keywords)
                             >= KeywordMatches(text, keywords)
                       /\ Ge(KeywordScore(more, keywords),
                             KeywordScore(text, keywords))

\* a text whose matches per hundred words are more than one: the score is 1
C24_Witness ==
    /\ Classified
    /\ LET text == classifier.page.text IN
       /\ Words(text) > 0
       /\ 100 * KeywordMatches(text, "copyright_keywords") > Words(text)
       /\ KeywordScore(text, "copyright_keywords") = One
       /\ KeywordMatches(OneMoreMatch(text, "publishing"), "copyright_keywords")
             > KeywordMatches(text, "copyright_keywords")

\* the rule that a reason names: its score and its threshold
RuleOf(reason, page) ==
    CASE reason = "Copyright/publication page" ->
             <<KeywordScore(page.text, "copyright_keywords"), <<3, 10>>>>
      [] reason = "Acknowledgments/dedication" ->
             <<KeywordScore(page.text, "acknowledgment_keywords"), <<2, 10>>>>
      [] reason = "Table of contents" -> <<TocScore(page.text), <<4, 10>>>>
      [] reason = "Index/bibliography" ->
             <<KeywordScore(page.text, "index_keywords"), <<3, 10>>>>
      [] reason = "Promotional content" ->
             <<KeywordScore(page.text, "promotional_keywords"), <<3, 10>>>>
      [] reason = "Likely metadata page" ->
             <<PagePosition(page, page.text), <<7, 10>>>>

\* C29: the confidence of a drop lies in [0,1]; when a keyword or pattern
\* rule decides, the confidence is the score of that rule and is above its
\* threshold; a page of 50 words or more whose copyright score is above 0.3
\* is dropped, when copyright filtering is enabled, as a copyright page with
\* a confidence above 0.3.
C29_ConfidenceIsScore ==
    Classified
        => LET page == classifier.page
               result == classifier.result
           IN /\ result.should_skip =>
                    /\ InUnitInterval(result.confidence)
                    /\ result.reason # "Too few words" =>
                          /\ result.confidence = RuleOf(result.reason, page)[1]
                          /\ Gt(result.confidence, RuleOf(result.reason, page)[2])
              /\ (/\ page.word_count >= 50
                  /\ ConfigGet(classifier.config, "SKIP_COPYRIGHT")
                  /\ Gt(KeywordScore(page.text, "copyright_keywords"), <<3, 10>>))
                    => /\ result.should_skip
                       /\ result.reason = "Copyright/publication page"
                       /\ Gt(result.confidence, <<3, 10>>)

\* a page of 50 words or more with copyright keywords is dropped as a
\* copyright page
C29_Witness ==
    /\ Classified
    /\ classifier.page.word_count >= 50
    /\ KeywordMatches(classifier.page.text, "copyright_keywords") = 2
    /\ classifier.result.should_skip
    /\ classifier.result.reason = "Copyright/publication page"
    /\ Gt(classifier.result.confidence, <<3, 10>>)

(***************************************************************************)
(* The preparation of a conversion.                                        *)
(***************************************************************************)
Prepared == preparation.pc = "prepared"

\* page 1 of 200 words headed Chapter 1, page 2 of 30 words of thanks,
\* page 3 of 150 words headed Chapter 2
ScenarioPages ==
    << [page_number |-> 1, text |-> "Chapter 1", word_count |-> 200],
       [page_number |-> 2, text |-> "Acknowledgments", word_count |-> 30],
       [page_number |-> 3, text |-> "Chapter 2", word_count |-> 150] >>

\* C21: of the three pages of the scenario, page 2 is dropped for too few
\* words with confidence 0.9 and pages 1 and 3 are kept; two sections
\* remain after section filtering, Chapter 1 then Chapter 2.
C21_ThreePageScenario ==
    (Prepared /\ preparation.pages = ScenarioPages)
        => /\ AnalyzePage(ScenarioPages[2], AppConfig)
                 = FilterResult(TRUE, "Too few words", <<9, 10>>)
           /\ preparation.filtered_pages = <<ScenarioPages[1], ScenarioPages[3]>>
           /\ Len(preparation.filtered_sections) = 2
           /\ preparation.filtered_sections[1].title = "Chapter 1"
           /\ preparation.filtered_sections[2].title = "Chapter 2"

\* the document of the scenario has been prepared
C21_Witness ==
    /\ Prepared
    /\ preparation.pages = ScenarioPages
    /\ Len(preparation.sections) = 2

\* the flag of a request that governs the category a reason names
RequestFlagOf(reason) ==
    CASE reason = "Copyright/publication page" -> "skipCopyright"
      [] reason = "Acknowledgments/dedication" -> "skipAcknowledgments"
      [] reason = "Table of contents" -> "skipToc"
      [] reason = "Index/bibliography" -> "skipIndex"
      [] reason = "Promotional content" -> "skipPromotional"

\* the flag of a request for a flag of the configuration that skips titles
RequestFlagOfTitle(flag) ==
    CASE flag = "SKIP_ACKNOWLEDGMENTS" -> "skipAcknowledgments"
      [] flag = "SKIP_TOC" -> "skipToc"
      [] flag = "SKIP_INDEX" -> "skipIndex"

\* C25: a page is dropped by the rule of a category, and a section for a
\* title of a category, only when the flag of that category is enabled in
\* the settings of the request.
C25_RequestFlagsDecide ==
    Prepared
        => /\ \A n \in 1..Len(preparation.pages) :
                 LET result == AnalyzePage(preparation.pages[n], AppConfig) IN
                 (/\ \A k \in 1..Len(preparation.filtered_pages) :
                        preparation.filtered_pages[k] # preparation.pages[n]
                  /\ result.reason \in {"Copyright/publication page",
                                        "Acknowledgments/dedication",
                                        "Table of contents",
                                        "Index/bibliography",
                                        "Promotional content"})
                     => RequestFlagOf(result.reason) \in preparation.settings
           /\ \A n \in 1..Len(preparation.sections) :
                 (\A k \in 1..Len(preparation.filtered_sections) :
                     preparation.filtered_sections[k] # preparation.sections[n])
                     => \A flag \in SkipTitleFlags(preparation.sections[n].title) :
                           RequestFlagOfTitle(flag) \in preparation.settings

(***************************************************************************)
(* Two jobs and the shared pipeline objects.                               *)
(***************************************************************************)
\* the audio chunks follow the text chunks, as far as there are any
FollowsChunks(audio_chunks, text_chunks) ==
    /\ Len(audio_chunks) <= Len(text_chunks)
    /\ \A n \in 1..Len(audio_chunks) :
          /\ audio_chunks[n].text = text_chunks[n].text
          /\ audio_chunks[n].chapter = text_chunks[n].chapter

\* C28: the chunks a thread synthesizes and assembles are those of the
\* document of its own job, as when the job runs alone, whatever the other
\* thread does with the shared PDFProcessor in the meantime.
C28_JobsDoNotInterfere ==
    \A t \in Started :
        LET own == AllChunks(active_jobs[JobOf(t)].doc) IN
        /\ workers[t].all_chunks \in {<<>>, own}
        /\ workers[t].pc \in {"convert", "synth", "tts_call", "tts_retry"}
              => workers[t].all_chunks = own
        /\ FollowsChunks(workers[t].audio_chunks, own)
        /\ workers[t].pc \in Assembling => SameChunks(workers[t].audio_chunks, own)

\* two threads run for different jobs; one assembles the chunks of its job
\* while the shared PDFProcessor holds the sections of the other job
C28_Witness ==
    \E t, u \in Started :
        /\ JobOf(t) # JobOf(u)
        /\ Running(t) /\ Running(u)
        /\ workers[t].pc \in Assembling
        /\ workers[t].audio_chunks # <<>>
        /\ pdf_processor.sections = active_jobs[JobOf(u)].doc
        /\ pdf_processor.sections # active_jobs[JobOf(t)].doc

(***************************************************************************)
(* Cancellation and the job-level retry.                                   *)
(***************************************************************************)
\* the worker is about to handle the cancellation it raised at a checkpoint
HandlesCancellation(t) ==
    workers[t].pc = "except" /\ workers[t].e = CancelMsg

\* C31: a worker that handles the cancellation it observed takes no
\* job-level retry step: the step that handles it does not reset progress to
\* 0 with a 'Retrying conversion' message and does not sleep 5 * n seconds.
C31_NoRetryAfterCancel ==
    [][\A t \in Started :
          (HandlesCancellation(t) /\ workers'[t] # workers[t])
              => /\ workers'[t].slept = 0
                 /\ active_jobs'[JobOf(t)].message # "Retrying conversion"]_vars

(***************************************************************************)
(* The pages of a section.                                                 *)
(***************************************************************************)
\* the positions, in the page list, of the pages that open a section
HeadingIndices(pages) ==
    {n \in 1..Len(pages) : MatchesChapterPattern(pages[n].text)}

\* the position of the k-th heading page
KthHeading(pages, k) ==
    CHOOSE h \in HeadingIndices(pages) :
        Cardinality({g \in HeadingIndices(pages) : g <= h}) = k

\* the texts of pages from..to in page order, each followed by a newline
RECURSIVE TextOfPages(_, _, _)
TextOfPages(pages, from, to) ==
    IF from > to THEN ""
    ELSE pages[from].text \o "\n" \o TextOfPages(pages, from + 1, to)

\* C32: detect_chapters returns one section per heading page; the content of
\* the k-th section is the text of the pages from the k-th heading page up
\* to the page before the next heading page (the last page for the last
\* section), in page order, so that every page from the first heading on
\* contributes to exactly the section of the latest heading at or before it
\* and the pages before the first heading to none; the last section's
\* end_page is the last input page.
C32_PagesInOneSection ==
    segmenter.pc = "return" =>
        LET pages == segmenter.pages
            sections == segmenter.sections
            count == Cardinality(HeadingIndices(pages))
        IN /\ Len(sections) = count
           /\ \A k \in 1..Len(sections) :
                 LET h == KthHeading(pages, k)
                     last == IF k < count
                             THEN KthHeading(pages, k + 1) - 1
                             ELSE Len(pages)
                 IN /\ sections[k].start_page = pages[h].page_number
                    /\ sections[k].content = TextOfPages(pages, h, last)
           /\ sections # <<>> =>
                 sections[Len(sections)].end_page
                     = pages[Len(pages)].page_number

\* two sections were returned for a document that starts with a page
\* without heading and has a page without heading after the first heading
C32_Witness ==
    /\ segmenter.pc = "return"
    /\ Len(segmenter.sections) = 2
    /\ ~MatchesChapterPattern(segmenter.pages[1].text)
    /\ \E n \in 1..Len(segmenter.pages) :
          /\ n > KthHeading(segmenter.pages, 1)
          /\ n < KthHeading(segmenter.pages, 2)

(***************************************************************************)
(* The delay of a call that finds the window full.                         *)
(***************************************************************************)
\* the oldest request time in the window
Oldest(times) ==
    CHOOSE m \in {times[n] : n \in 1..Len(times)} :
        \A n \in 1..Len(times) : m <= times[n]

\* C33: a call that finds the cap of requests recorded within the last 60
\* seconds is delayed by exactly 60 - (now - oldest recorded time) seconds
\* and, when that is zero or negative, is not delayed at all.
C33_DelayByOldest ==
    [][\A c \in DOMAIN callers :
          (/\ callers[c].pc = "check"
           /\ callers'[c].pc # "check"
           /\ WindowFull(Recent(request_times, callers[c].now)))
              => LET delay == WindowSeconds
                                - (callers[c].now
                                   - Oldest(Recent(request_times, callers[c].now)))
                 IN IF delay > 0
                    THEN /\ callers'[c].pc = "sleeping"
                         /\ callers'[c].wake = clock + delay
                    ELSE callers'[c].pc = "append"]_vars

(***************************************************************************)
(* Errors while tagging the exported file.                                 *)
(***************************************************************************)
\* C34: an error raised while the tags are written into the exported file
\* fails the pipeline attempt: no worker whose tagging raised in the current
\* attempt has written completed to its job.
C34_TagErrorIsFatal ==
    \A t \in Started :
        workers[t].tag_error
            => ~(workers[t].pc = "emit_complete"
                 /\ Status(JobOf(t)) = "completed")

(***************************************************************************)
(* Backend calls that ended in an exception.                               *)
(***************************************************************************)
\* C35: an audio chunk is appended only for a backend call that succeeded:
\* the empty audio of a response built from an exception, whatever its
\* message, is never in the sequence a worker collects for assembly.
C35_NoAudioFromFailedCall ==
    \A t \in Started :
        \A n \in 1..Len(workers[t].audio_chunks) :
            workers[t].audio_chunks[n].audio_data # ""

(***************************************************************************)
(* Termination of a worker.                                                *)
(***************************************************************************)
\* the workers that run for job j
WorkersOf(j) == {t \in Started : JobOf(t) = j}

\* C36: when every stage and every backend call returns, a started worker
\* makes at most 3 pipeline attempts and at most 3 backend calls per chunk
\* and attempt, and returns; a job whose workers have all returned is not
\* left at processing: its status is completed, failed or cancelled.
C36_WorkerTerminates ==
    /\ [](\A t \in ThreadIds :
             /\ workers[t].retry_count <= max_retries
             /\ workers[t].calls <= max_tts_retries)
    /\ [](\A j \in Uploaded :
             (Status(j) # "uploaded" /\ WorkersOf(j) = {})
                 => Status(j) \in Terminal)
    /\ \A t \in ThreadIds : Running(t) ~> workers[t].pc = "done"

\* a worker has returned after its third attempt failed
C36_Witness ==
    \E t \in ThreadIds, j \in Uploaded :
        /\ workers[t].pc = "done"
        /\ WorkersOf(j) = {}
        /\ Status(j) = "failed"

(***************************************************************************)
(* Chapter markers and the chapters cut out of the assembled audio.        *)
(***************************************************************************)
\* every chunk carries a chapter label
AllLabelled(chunks) == \A k \in 1..Len(chunks) : Truthy(chunks[k].chapter)

\* the chunks that begin a chapter: the first, and each whose label differs
\* from the label of the chunk before it
ChapterStarts(chunks) ==
    {k \in 1..Len(chunks) : k = 1 \/ chunks[k - 1].chapter # chunks[k].chapter}

KthChapterStart(chunks, k) ==
    CHOOSE h \in ChapterStarts(chunks) :
        Cardinality({g \in ChapterStarts(chunks) : g <= h}) = k

\* where the audio of chunk k begins inside the assembled audio
RECURSIVE ChunkOffset(_, _, _)
ChunkOffset(chunks, k, pause) ==
    IF k = 1 THEN 0
    ELSE ChunkOffset(chunks, k - 1, pause)
            + ChunkDuration(chunks[k - 1])
            + (IF LabelChanges(chunks, k - 1)
               THEN DurationMs("silence", pause) ELSE 0)

\* C37: for labelled chunks with measured durations assembled with a
\* positive chapter pause, the markers of create_chapter_markers give for
\* each chapter the offsets at which its first chunk begins and its last
\* chunk ends inside the assembled audio, and split_by_chapters cuts out of
\* the assembled audio exactly the chapter's chunks, whole and in order.
C37_MarkersMatchAudio ==
    (assembler.pc = "split" /\ AllLabelled(assembler.chunks)) =>
        LET chunks == assembler.chunks
            pause == assembler.chapter_pause_duration
            count == Cardinality(ChapterStarts(chunks))
        IN /\ Len(assembler.chapters) = count
           /\ \A k \in 1..Len(assembler.chapters) :
                 LET first == KthChapterStart(chunks, k)
                     last == IF k < count
                             THEN KthChapterStart(chunks, k + 1) - 1
                             ELSE Len(chunks)
                 IN /\ assembler.chapters[k].start_time
                          = ChunkOffset(chunks, first, pause)
                    /\ assembler.chapters[k].end_time
                          = ChunkOffset(chunks, last, pause)
                               + ChunkDuration(chunks[last])
                    /\ assembler.chapter_audio[k]
                          = [i \in 1..(last - first + 1) |->
                                [segment |-> chunks[first + i - 1].audio_data,
                                 from |-> 0,
                                 to |-> ChunkDuration(chunks[first + i - 1])]]

(***************************************************************************)
(* The positional rule.                                                    *)
(***************************************************************************)
\* C38: with copyright filtering enabled no page is dropped with reason
\* 'Likely metadata page': a page with enough words whose boosted positional
\* score exceeds 0.7 has a copyright score above 0.3 and is dropped by the
\* copyright rule.
C38_PositionNeverDecides ==
    (Classified /\ ConfigGet(classifier.config, "SKIP_COPYRIGHT")) =>
        LET page == classifier.page
            position_score == PagePosition(page, page.text)
            copyright_score == KeywordScore(page.text, "copyright_keywords")
        IN /\ classifier.result.reason # "Likely metadata page"
           /\ (Gt(position_score, <<7, 10>>) /\ page.word_count >= MinPageWords)
                 => /\ Gt(copyright_score, <<3, 10>>)
                    /\ classifier.result.reason = "Copyright/publication page"

\* a page of 200 words among the first five with one front indicator and no
\* other copyright keyword was classified with copyright filtering enabled
C38_Witness ==
    /\ Classified
    /\ ConfigGet(classifier.config, "SKIP_COPYRIGHT")
    /\ classifier.page.page_number = 5
    /\ classifier.page.word_count = 200
    /\ Stats(classifier.page.text).words = 200
    /\ Stats(classifier.page.text).front = 1
    /\ Stats(classifier.page.text).publishing = 0
    /\ Gt(PagePosition(classifier.page, classifier.page.text), <<7, 10>>)

(***************************************************************************)
(* The default backend of the manager.                                     *)
(***************************************************************************)
Registered == DOMAIN tts_manager.services

\* C39: after any sequence of add_service and set_default_service calls,
\* those that raise included, default_service is None exactly when no
\* service is registered and otherwise names a registered service; a
\* set_default_service call with an unregistered name raises and leaves
\* default_service and the registry as they were.
C39_DefaultIsRegistered ==
    /\ []((tts_manager.default_service = None <=> Registered = {})
          /\ (tts_manager.default_service # None
                 => tts_manager.default_service \in Registered))
    /\ [][\A name \in ServiceNames \ Registered :
             set_default_service(name)
                 => /\ tts_manager'.raised = "ValueError"
                    /\ tts_manager'.services = tts_manager.services
                    /\ tts_manager'.default_service
                          = tts_manager.default_service]_vars

\* set_default_service has raised for a manager with two registered
\* services, the second of them the default
C39_Witness ==
    /\ tts_manager.raised = "ValueError"
    /\ Registered = {"openai", "google"}
    /\ tts_manager.default_service = "google"
    /\ tts_manager.services["google"] = "GoogleTTSService"

====
